---- MODULE Spec2Model ----
(***************************************************************************)
(* A model of the VSCode-for-Z provisioning scripts (src/scripts):         *)
(*   - install.py: the seven-phase install pipeline (specification Spec);  *)
(*   - utils/message_utils.py, utils/file_utils.py: the spinner-wrapped     *)
(*     blocking calls (specification SpecSpinner);                          *)
(*   - utils/file_utils.py, utils/path_utils.py, file_utils.py: the         *)
(*     directory helpers and the archive normalizer (specification SpecFS); *)
(*   - uninstall.py, workspace.py: cleanup, backup and restore              *)
(*     (specification SpecUn);                                              *)
(*   - utils/file_utils.py, install.py, workspace.py: replace_in_file and   *)
(*     the templating of the settings files (specification SpecTpl);        *)
(*   - utils/path_utils.py: get_latest_file (specification SpecGl).         *)
(***************************************************************************)
EXTENDS Integers, Sequences, FiniteSets, TLC

(***************************************************************************)
(* Bounds of the model.                                                     *)
(***************************************************************************)
\* packaged CLI core modules (*.tgz) found in the zowe-core directory
NCore == 2
\* packaged CLI plugin modules (*.tgz) found in the zowe-plugin directory
NPlugin == 1
\* wheel names listed in pip.yml
NWhl == 2
\* extension packages (*.vsix) found for the declared publishers
NExt == 2
\* spinner-wrapped calls one caller makes in a row
MaxCalls == 2

VARIABLES
    \* ---- install.py -------------------------------------------------------
    tools,          \* the tools manifest: a sequence of [name, type] (dict order)
    present,        \* names of the tools whose archive is in its directory
    autoContinue,   \* args.yes
    hasWin32com,    \* the import of win32com.client succeeded
    lnk0,           \* VSCode.lnk when the run starts: "absent" or "old"
    lnk,            \* VSCode.lnk now: "absent", "old", or "new" (saved by this run)
    killed,         \* taskkill loops run: <<extension index, a taskkill exited nonzero>>
    pc,             \* position of the main thread of install.py
    phase,          \* number of the phase whose wrapper was called last (0: none)
    idx,            \* loop index inside the running phase
    exitCode,       \* process exit status, -1 while the process has not ended
    phaseLog,       \* sequence of the phases called so far
    active,         \* phases called and not yet returned or terminated
    acked,          \* phases whose gate the user acknowledged with Enter
    extractTried,   \* tools for which an extraction was attempted
    attempted,      \* sub-installs attempted: <<group, index>>
    caught,         \* failures caught and logged by a handler: <<group, outcome>>
    last,           \* the sub-install that finished last: [grp, i, out]
    threadsLeft,    \* spinner threads left running by a wrapper that raised
    \* ---- the spinner-wrapped blocking calls -------------------------------
    sKind,          \* the wrapper being called: "extract", "copy" or "run"
    sMain,          \* position of the calling thread
    sStop,          \* stop_event of the current call is set
    sThread,        \* position of the spinner thread of the current call
    sIdx,           \* idx of the spinner loop, modulo len(spinner_chars)
    sLeave,         \* how control left the last call: "returned" or "raised"
    sCalls,         \* number of wrapper calls made so far
    sExc,           \* the exception run_with_spinner is unwinding with, or "none"
    sOrphans,       \* spinner threads of earlier calls that are still running
    \* ---- the directory helpers --------------------------------------------
    fs,             \* the tree of the destination directory: path -> node
    fs0,            \* the tree the caller found
    fsRun,          \* the tree the first run of phase 2 left
    fsPrev,         \* the tree before the helper called last
    fsPc,           \* position of the caller of the helpers
    calls,          \* the helper calls made so far: [op, marker, suffix, payload, err]
    \* ---- uninstall.py and workspace.py ------------------------------------
    ws,             \* the tree of the workspace root: path -> node
    wsPrev,         \* the tree before the step that changed it last
    unPc,           \* position of the script that is running, "idle" between runs
    uManifest,      \* scripts/tools.yml
    uTools,         \* the tools dictionary of the running uninstall (dict order)
    uIdx,           \* index of the tool the cleaning loop is at
    uClock,         \* datetime.datetime.now(), in seconds
    uRuns,          \* script runs started so far
    uVer,           \* number of edits made to the live configuration
    uBacked,        \* backup name -> the live content it was copied from
    uStart,         \* the backups the running uninstall found when it started
    \* ---- replace_in_file and its callers ----------------------------------
    tBytes,         \* the bytes of the file being templated
    tBytes0,        \* the bytes of the file when the run started
    tPrev,          \* the bytes before the replace_in_file called last
    tPc,            \* position of the script that is templating
    tWorkspace,     \* the workspace path of install.py
    tLinesep,       \* os.linesep of the platform the script runs on
    tPort,          \* properties["zosmf"]["port"]: the default or the typed text
    tPattern,       \* the pattern of the replace_in_file called last
    tTurns,         \* menu choices made so far
    tIdx,           \* index of the replace_in_file call the script is at
    \* ---- get_latest_file --------------------------------------------------
    gDir,           \* the directory searched: entry name -> modification time
    gOrder,         \* the order in which the directory lists its entries
    gPattern,       \* the pattern searched for
    gResult,        \* what get_latest_file returned
    gPc,            \* position of the caller
    \* ---- safe_rmtree and safe_remove_file ----------------------------------
    rKind,          \* the function called: "tree" (safe_rmtree) or "file" (safe_remove_file)
    rRetries,       \* retries
    rDelay,         \* delay, in seconds
    rAttempt,       \* attempt, the loop variable
    rPc,            \* position inside the function
    rExists,        \* the path exists
    rLog,           \* what the call did so far: "try", the exception caught, "sleep"
    rWaited,        \* seconds slept so far
    rResult,        \* what the call returned, "none" while it runs
    \* ---- phase 6 on the extensions directory -------------------------------
    xManifest,      \* extensions.yml: the publishers, in the order of the file
    xDir,           \* the names of the files in the extensions directory
    xPi,            \* position of the loop over the publishers
    xQueue,         \* files of the current publisher still to install
    xLog,           \* the files passed to the install command, in order
    xPc,            \* position in phase6_install_extensions
    \* ---- the runtime home of install.py ------------------------------------
    jTools,         \* tools.yml: the names of the declared tools
    jWorkspace,     \* the workspace root
    jPc,            \* position in main of install.py
    jHome,          \* java_home_path as phase 2 returned it
    jSettings,      \* the text phase 5 put in place of _JAVAHOME_
    jCmd            \* the value of JAVA_HOME phase 7 inserted

\* the inputs of a run, the control state of the main thread, and the record
\* of what the run did
inputVars == <<tools, present, autoContinue, hasWin32com, lnk0>>
histVars  == <<acked, extractTried, attempted, caught, last>>

installVars == <<inputVars, histVars, pc, phase, idx, exitCode, phaseLog, active,
                 threadsLeft, lnk, killed>>

spinnerVars == <<sKind, sMain, sStop, sThread, sIdx, sLeave, sCalls, sExc, sOrphans>>

fsVars == <<fs, fs0, fsRun, fsPrev, fsPc, calls>>

unVars == <<ws, wsPrev, unPc, uManifest, uTools, uIdx, uClock, uRuns, uVer, uBacked, uStart>>

tplVars == <<tBytes, tBytes0, tPrev, tPc, tWorkspace, tLinesep, tPort, tPattern, tTurns,
             tIdx>>

glVars == <<gDir, gOrder, gPattern, gResult, gPc>>

rmVars == <<rKind, rRetries, rDelay, rAttempt, rPc, rExists, rLog, rWaited, rResult>>

extVars == <<xManifest, xDir, xPi, xQueue, xLog, xPc>>

javaVars == <<jTools, jWorkspace, jPc, jHome, jSettings, jCmd>>

\* the variables each specification leaves alone
outsideInstall == <<spinnerVars, fsVars, unVars, tplVars, glVars, rmVars, extVars, javaVars>>
outsideSpinner == <<installVars, fsVars, unVars, tplVars, glVars, rmVars, extVars, javaVars>>
outsideFS      == <<installVars, spinnerVars, unVars, tplVars, glVars, rmVars, extVars, javaVars>>
outsideUn      == <<installVars, spinnerVars, fsVars, tplVars, glVars, rmVars, extVars, javaVars>>
outsideTpl     == <<installVars, spinnerVars, fsVars, unVars, glVars, rmVars, extVars, javaVars>>
outsideGl      == <<installVars, spinnerVars, fsVars, unVars, tplVars, rmVars, extVars, javaVars>>
outsideRm      == <<installVars, spinnerVars, fsVars, unVars, tplVars, glVars, extVars, javaVars>>
outsideExt     == <<installVars, spinnerVars, fsVars, unVars, tplVars, glVars, rmVars, javaVars>>
outsideJava    == <<installVars, spinnerVars, fsVars, unVars, tplVars, glVars, rmVars, extVars>>

vars == <<installVars, spinnerVars, fsVars, unVars, tplVars, glVars, rmVars, extVars, javaVars>>

(***************************************************************************)
(* configs/tools.yml is not part of the sources; the manifests below use   *)
(* the tool keys install.py reads (vscode, nodejs, python, zowe-core,      *)
(* zowe-plugin and the java keys) with the two archive types phase 2 handles.         *)
(***************************************************************************)
ManifestA ==
    << [name |-> "vscode",      type |-> "zip"],
       [name |-> "java21",      type |-> "zip"],
       [name |-> "python",      type |-> "exe"],
       [name |-> "nodejs",      type |-> "zip"],
       [name |-> "zowe-core",   type |-> "tgz"],
       [name |-> "zowe-plugin", type |-> "tgz"] >>

ManifestB ==
    << [name |-> "zowe-plugin", type |-> "tgz"],
       [name |-> "python",      type |-> "exe"],
       [name |-> "java8",       type |-> "zip"],
       [name |-> "java21",      type |-> "zip"],
       [name |-> "nodejs",      type |-> "zip"],
       [name |-> "zowe-core",   type |-> "tgz"],
       [name |-> "vscode",      type |-> "zip"] >>

ManifestSet == {ManifestA, ManifestB}

ToolNames(m) == {m[i].name : i \in DOMAIN m}

(***************************************************************************)
(* get_latest_file(dir, pattern): "" when nothing matches, otherwise the   *)
(* basename of the newest match.  In the pipeline only the emptiness of    *)
(* the result is read (phase 1) and the name is passed on to phase 2.      *)
(***************************************************************************)
\* a lookup that reports an archive also when none matches
LatestArchiveAlways(t) == t.name \o "." \o t.type

LatestArchive(t) == IF t.name \in present THEN t.name \o "." \o t.type ELSE ""

(***************************************************************************)
(* The sub-install groups: every run_with_spinner call site of install.py. *)
(***************************************************************************)
Groups == {"exe", "core", "plugin", "venv", "whl", "ext"}

\* the batch loops of phases 3, 4 and 6
BatchGroups == {"core", "plugin", "whl", "ext"}

\* the phase a group belongs to
PhaseOf(g) ==
    CASE g = "exe"                 -> 2
      [] g \in {"core", "plugin"}  -> 3
      [] g \in {"venv", "whl"}     -> 4
      [] g = "ext"                 -> 6

\* number of items of a batch loop
Count(g) ==
    CASE g = "core"   -> NCore
      [] g = "plugin" -> NPlugin
      [] g = "whl"    -> NWhl
      [] g = "ext"    -> NExt

\* run_with_spinner is given a timeout at these call sites only
HasTimeout(g) == g \in {"core", "plugin", "whl", "ext"}

\* what subprocess.run(check=True, timeout=...) can do at a call site
PossibleOutcomes(g) ==
    IF HasTimeout(g) THEN {"ok", "nonzero", "timeout"} ELSE {"ok", "nonzero"}

\* a handler set that forgets CalledProcessError
HandledNoNonzero(g) ==
    IF g = "whl" THEN {"timeout"} ELSE {}

\* the exceptions the except clauses around a call site name
\*   nonzero = subprocess.CalledProcessError, timeout = subprocess.TimeoutExpired
Handled(g) ==
    CASE g = "exe"    -> {"nonzero"}
      [] g = "core"   -> {"nonzero"}
      [] g = "plugin" -> {"nonzero"}
      [] g = "venv"   -> {"nonzero"}
      [] g = "whl"    -> {"timeout", "nonzero"}
      [] g = "ext"    -> {"nonzero"}

NoLast == [grp |-> "none", i |-> 0, out |-> "none"]

\* the state of a specification's idle parts
SpinnerIdle ==
    /\ sKind = "none"
    /\ sMain = "caller"
    /\ sStop = FALSE
    /\ sThread = "none"
    /\ sIdx = 0
    /\ sLeave = "none"
    /\ sCalls = 0
    /\ sExc = "none"
    /\ sOrphans = 0

FSIdle ==
    /\ fs = << >>
    /\ fs0 = << >>
    /\ fsRun = << >>
    /\ fsPrev = << >>
    /\ fsPc = "idle"
    /\ calls = << >>

UnIdle ==
    /\ ws = << >>
    /\ wsPrev = << >>
    /\ unPc = "off"
    /\ uManifest = << >>
    /\ uTools = << >>
    /\ uIdx = 1
    /\ uClock = 0
    /\ uRuns = 0
    /\ uVer = 0
    /\ uBacked = << >>
    /\ uStart = << >>

TplIdle ==
    /\ tBytes = << >>
    /\ tBytes0 = << >>
    /\ tPrev = << >>
    /\ tPc = "off"
    /\ tWorkspace = << >>
    /\ tLinesep = << >>
    /\ tPort = << >>
    /\ tPattern = << >>
    /\ tTurns = 0
    /\ tIdx = 1

GlIdle ==
    /\ gDir = << >>
    /\ gOrder = << >>
    /\ gPattern = << >>
    /\ gResult = << >>
    /\ gPc = "off"

RmIdle ==
    /\ rKind = "none"
    /\ rRetries = 0
    /\ rDelay = 0
    /\ rAttempt = 0
    /\ rPc = "off"
    /\ rExists = FALSE
    /\ rLog = << >>
    /\ rWaited = 0
    /\ rResult = "none"

ExtIdle ==
    /\ xManifest = << >>
    /\ xDir = {}
    /\ xPi = 1
    /\ xQueue = << >>
    /\ xLog = << >>
    /\ xPc = "off"

JavaIdle ==
    /\ jTools = {}
    /\ jWorkspace = << >>
    /\ jPc = "off"
    /\ jHome = << >>
    /\ jSettings = << >>
    /\ jCmd = << >>

InstallIdle ==
    /\ tools = << >>
    /\ present = {}
    /\ autoContinue = FALSE
    /\ hasWin32com = FALSE
    /\ lnk0 = "absent"
    /\ lnk = "absent"
    /\ killed = {}
    /\ pc = "idle"
    /\ phase = 0
    /\ idx = 1
    /\ exitCode = -1
    /\ phaseLog = << >>
    /\ active = {}
    /\ acked = {}
    /\ extractTried = {}
    /\ attempted = {}
    /\ caught = {}
    /\ last = NoLast
    /\ threadsLeft = 0

Init ==
    /\ SpinnerIdle
    /\ FSIdle
    /\ UnIdle
    /\ TplIdle
    /\ GlIdle
    /\ RmIdle
    /\ ExtIdle
    /\ JavaIdle
    /\ tools \in ManifestSet
    /\ present \in SUBSET ToolNames(tools)
    /\ autoContinue \in BOOLEAN
    /\ hasWin32com \in BOOLEAN
    /\ lnk0 \in {"absent", "old"}
    /\ lnk = lnk0
    /\ killed = {}
    /\ pc = "main"
    /\ phase = 0
    /\ idx = 1
    /\ exitCode = -1
    /\ phaseLog = << >>
    /\ active = {}
    /\ acked = {}
    /\ extractTried = {}
    /\ attempted = {}
    /\ caught = {}
    /\ last = NoLast
    /\ threadsLeft = 0

(***************************************************************************)
(* Control transfers of the main thread.                                    *)
(***************************************************************************)
\* stay in the running phase, at position p
Goto(p) ==
    /\ pc' = p
    /\ UNCHANGED <<phase, exitCode, phaseLog, active, threadsLeft>>

\* an exit that reports success
SysExitZero ==
    /\ pc' = "exited"
    /\ exitCode' = 0
    /\ active' = {}
    /\ UNCHANGED <<phase, idx, phaseLog, threadsLeft>>

\* sys.exit(1) or sys.exit("message"): SystemExit unwinds main, status 1
SysExit ==
    /\ pc' = "exited"
    /\ exitCode' = 1
    /\ active' = {}
    /\ UNCHANGED <<phase, idx, phaseLog, threadsLeft>>

\* An exception that no except clause names unwinds main: the main thread ends
\* with a traceback.  The interpreter waits for the non-daemon threads before
\* the process ends with status 1, so with a spinner thread left running
\* (left > 0) the process never ends.
Uncaught(left) ==
    /\ pc' = "crashed"
    /\ threadsLeft' = left
    /\ exitCode' = IF left = 0 THEN 1 ELSE -1
    /\ active' = {}
    /\ UNCHANGED <<phase, idx, phaseLog>>

\* the phase body returns to main()
Return ==
    /\ pc' = "ret"
    /\ active' = active \ {phase}
    /\ idx' = 1
    /\ UNCHANGED <<phase, exitCode, phaseLog, threadsLeft>>

\* first position of the body of phase k
FirstStep(k) ==
    CASE k = 1 -> "p1load"
      [] k = 2 -> "p2zip"
      [] k = 3 -> "core"
      [] k = 4 -> "p4load"
      [] k = 5 -> "p5copy"
      [] k = 6 -> "p6load"
      [] k = 7 -> "p7insert"

\* a main() that calls one phase wrapper a second time
NextPhaseAgain(k) == IF k = 3 /\ Len(phaseLog) = 3 THEN 3 ELSE k + 1

\* main() calls the phase wrappers in program order
NextPhase(k) == k + 1

CallPhase ==
    /\ pc \in {"main", "ret"}
    /\ phase < 7
    /\ phase' = NextPhase(phase)
    /\ phaseLog' = Append(phaseLog, phase')
    /\ active' = active \cup {phase'}
    /\ pc' = "gate"
    /\ idx' = 1
    /\ UNCHANGED <<outsideInstall, lnk, killed, inputVars, histVars, exitCode, threadsLeft>>

(***************************************************************************)
(* confirm_step: pause_if_needed(message, auto_continue), then the body.    *)
(***************************************************************************)
GateAuto ==
    /\ pc = "gate"
    /\ autoContinue
    /\ Goto(FirstStep(phase))
    /\ UNCHANGED <<outsideInstall, lnk, killed, inputVars, histVars, idx>>

\* a gate that lets an interactive run through without asking
GateSkip ==
    /\ pc = "gate"
    /\ ~autoContinue
    /\ Goto(FirstStep(phase))
    /\ UNCHANGED <<outsideInstall, lnk, killed, inputVars, histVars, idx>>

\* pause_if_needed without auto_continue: input(...) waits for Enter
GatePrompt ==
    /\ pc = "gate"
    /\ ~autoContinue
    /\ Goto("input")
    /\ UNCHANGED <<outsideInstall, lnk, killed, inputVars, histVars, idx>>

\* the user presses Enter: input() returns and the phase body is called
UserEnter ==
    /\ pc = "input"
    /\ phase \in 1..7
    /\ acked' = acked \cup {phase}
    /\ Goto(FirstStep(phase))
    /\ UNCHANGED <<outsideInstall, lnk, killed, inputVars, extractTried, attempted, caught, last, idx>>

(***************************************************************************)
(* Phase 1: phase1_check_tools                                              *)
(***************************************************************************)
\* load_tools_config(): a missing tools.yml is sys.exit(message)
Phase1Load ==
    /\ pc = "p1load"
    /\ \/ Goto("p1check") /\ idx' = 1
       \/ SysExit
    /\ UNCHANGED <<outsideInstall, lnk, killed, inputVars, histVars>>

\* one iteration of "for tool, info in tools.items()"
Phase1Check ==
    /\ pc = "p1check"
    /\ idx <= Len(tools)
    /\ IF LatestArchive(tools[idx]) = ""
         THEN SysExit
         ELSE Goto("p1check") /\ idx' = idx + 1
    /\ UNCHANGED <<outsideInstall, lnk, killed, inputVars, histVars>>

Phase1Return ==
    /\ pc = "p1check"
    /\ idx > Len(tools)
    /\ Return
    /\ UNCHANGED <<outsideInstall, lnk, killed, inputVars, histVars>>

(***************************************************************************)
(* A sub-install: one run_with_spinner call and the try/except around it.   *)
(* The outcome is logged by the handler when an except clause names it and  *)
(* unwinds main otherwise (run_with_spinner re-raises after its own print). *)
(***************************************************************************)
Record(g, out) ==
    /\ attempted' = attempted \cup {<<g, idx>>}
    /\ last' = [grp |-> g, i |-> idx, out |-> out]
    /\ caught' = IF out # "ok" /\ out \in Handled(g)
                   THEN caught \cup {<<g, out>>} ELSE caught
    /\ UNCHANGED <<acked, extractTried>>

\* one iteration of a batch loop (phases 3, 4, 6)
BatchItem(g) ==
    /\ pc = g
    /\ idx <= Count(g)
    /\ \E out \in PossibleOutcomes(g) :
         /\ Record(g, out)
         /\ IF out = "ok" \/ out \in Handled(g)
              THEN Goto(g) /\ idx' = idx + 1
              ELSE Uncaught(0)
    /\ UNCHANGED <<outsideInstall, lnk, killed, inputVars>>

\* the batch loop has run out of items
BatchEnd(g, then) ==
    /\ pc = g
    /\ idx > Count(g)
    /\ IF then = "ret" THEN Return ELSE Goto(then) /\ idx' = 1
    /\ UNCHANGED <<outsideInstall, lnk, killed, inputVars, histVars>>

(***************************************************************************)
(* Phase 2: phase2_extract_packages                                         *)
(***************************************************************************)
\* "for tool, info in tools.items(): if info['type'] == 'zip'": the archive is
\* extracted (extract_zip_with_spinner) and normalized (move_contents_up).
\* zipfile raising (a damaged archive) is named by no handler, and the
\* wrapper leaves its spinner thread running (see SOpDone).
Phase2Zip ==
    /\ pc = "p2zip"
    /\ idx <= Len(tools)
    /\ IF tools[idx].type = "zip"
         THEN /\ extractTried' = extractTried \cup {tools[idx].name}
              /\ \/ Goto("p2zip") /\ idx' = idx + 1
                 \/ Uncaught(1)
         ELSE /\ Goto("p2zip") /\ idx' = idx + 1
              /\ UNCHANGED extractTried
    /\ UNCHANGED <<outsideInstall, lnk, killed, inputVars, acked, attempted, caught, last>>

Phase2ZipEnd ==
    /\ pc = "p2zip"
    /\ idx > Len(tools)
    /\ Goto("p2exe") /\ idx' = 1
    /\ UNCHANGED <<outsideInstall, lnk, killed, inputVars, histVars>>

\* "if info['type'] == 'exe'": the self-extracting archive is run; a nonzero
\* exit is caught and logged
Phase2Exe ==
    /\ pc = "p2exe"
    /\ idx <= Len(tools)
    /\ IF tools[idx].type = "exe"
         THEN \E out \in PossibleOutcomes("exe") :
                /\ attempted' = attempted \cup {<<"exe", idx>>}
                /\ last' = [grp |-> "exe", i |-> idx, out |-> out]
                /\ caught' = IF out # "ok" /\ out \in Handled("exe")
                               THEN caught \cup {<<"exe", out>>} ELSE caught
                /\ extractTried' = extractTried \cup {tools[idx].name}
                /\ IF out = "ok" \/ out \in Handled("exe")
                     THEN Goto("p2exe") /\ idx' = idx + 1
                     ELSE Uncaught(0)
         ELSE /\ Goto("p2exe") /\ idx' = idx + 1
              /\ UNCHANGED <<attempted, last, caught, extractTried>>
    /\ UNCHANGED <<outsideInstall, lnk, killed, inputVars, acked>>

Phase2ExeEnd ==
    /\ pc = "p2exe"
    /\ idx > Len(tools)
    /\ Goto("p2java") /\ idx' = 1
    /\ UNCHANGED <<outsideInstall, lnk, killed, inputVars, histVars>>

\* java_versions[0]: IndexError when the manifest declares no java tool
JavaKeys(m) == {n \in ToolNames(m) : n \in {"java8", "java11", "java17", "java21"}}

Phase2Java ==
    /\ pc = "p2java"
    /\ IF JavaKeys(tools) = {} THEN Uncaught(0) ELSE Return
    /\ UNCHANGED <<outsideInstall, lnk, killed, inputVars, histVars>>

(***************************************************************************)
(* Phase 3: phase3_install_zowe -- the core loop, then the plugin loop       *)
(***************************************************************************)
Phase3Core      == BatchItem("core")
Phase3CoreEnd   == BatchEnd("core", "plugin")
Phase3Plugin    == BatchItem("plugin")
Phase3PluginEnd == BatchEnd("plugin", "ret")

(***************************************************************************)
(* Phase 4: phase4_install_python_modules                                   *)
(***************************************************************************)
\* load_pip_config(): a missing pip.yml is sys.exit(message)
Phase4Load ==
    /\ pc = "p4load"
    /\ \/ Goto("p4venv") /\ UNCHANGED idx
       \/ SysExit
    /\ UNCHANGED <<outsideInstall, lnk, killed, inputVars, histVars>>

\* find_home_path(..., "python.exe") and the "-m venv" run: python.exe not
\* found, or the run exiting nonzero, is sys.exit(1)
Phase4Venv ==
    /\ pc = "p4venv"
    /\ \/ SysExit /\ UNCHANGED histVars
       \/ \E out \in PossibleOutcomes("venv") :
            /\ Record("venv", out)
            /\ IF out = "ok" THEN Goto("p4find") /\ UNCHANGED idx
               ELSE IF out \in Handled("venv") THEN SysExit
               ELSE Uncaught(0)
    /\ UNCHANGED <<outsideInstall, lnk, killed, inputVars>>

\* find_home_path(python_venv_path, "python.exe"): not found is sys.exit(1)
Phase4Find ==
    /\ pc = "p4find"
    /\ \/ Goto("whl") /\ idx' = 1
       \/ SysExit
    /\ UNCHANGED <<outsideInstall, lnk, killed, inputVars, histVars>>

Phase4Whl    == BatchItem("whl")
Phase4WhlEnd == BatchEnd("whl", "ret")

(***************************************************************************)
(* Phase 5: phase5_path_migration                                           *)
(***************************************************************************)
\* copy_contents_to_with_spinner swallows a failed copy; replace_in_file then
\* opens settings.json, and a missing file raises FileNotFoundError, which no
\* handler names
Phase5Copy ==
    /\ pc = "p5copy"
    /\ \/ Goto("p5zapp") /\ UNCHANGED idx
       \/ Uncaught(0)
    /\ UNCHANGED <<outsideInstall, lnk, killed, inputVars, histVars>>

\* find_target_file_path_by_pattern(..., "zapp-schema*.json"): none is sys.exit(1)
Phase5Zapp ==
    /\ pc = "p5zapp"
    /\ \/ Goto("p5zcode") /\ UNCHANGED idx
       \/ SysExit
    /\ UNCHANGED <<outsideInstall, lnk, killed, inputVars, histVars>>

\* find_target_file_path_by_pattern(..., "zcodeformat-schema*.json"), then the
\* java runtime list is written and the phase returns
Phase5Zcode ==
    /\ pc = "p5zcode"
    /\ \/ Return
       \/ SysExit
    /\ UNCHANGED <<outsideInstall, lnk, killed, inputVars, histVars>>

(***************************************************************************)
(* Phase 6: phase6_install_extensions                                       *)
(***************************************************************************)
\* load_extensions_config(): a missing extensions.yml is sys.exit(message)
Phase6Load ==
    /\ pc = "p6load"
    /\ \/ Goto("ext") /\ idx' = 1
       \/ SysExit
    /\ UNCHANGED <<outsideInstall, lnk, killed, inputVars, histVars>>

\* the process images taskkill is run for
KillProcs == {"Code.exe", "code.exe", "code.cmd"}

KillsAfterAny(out) == TRUE

\* the taskkill loop is the last statement of the try body: it runs when
\* run_with_spinner returned
KillsAfter(out) == out = "ok"

\* one iteration of the loop over the extensions: run_with_spinner installs
\* the extension
Phase6Ext ==
    /\ pc = "ext"
    /\ idx <= Count("ext")
    /\ \E out \in PossibleOutcomes("ext") :
         /\ Record("ext", out)
         /\ IF KillsAfter(out) THEN Goto("extkill") /\ UNCHANGED idx
            ELSE IF out \in Handled("ext") THEN Goto("ext") /\ idx' = idx + 1
            ELSE Uncaught(0)
    /\ UNCHANGED <<outsideInstall, lnk, killed, inputVars>>

\* subprocess.run(["taskkill", "/IM", proc, "/F"]) for the three images,
\* without check=True: an exit status of 128 (no such process) raises nothing
Phase6Kill ==
    /\ pc = "extkill"
    /\ \E rc \in [KillProcs -> {0, 128}] :
         killed' = killed \cup {<<idx, \E p \in KillProcs : rc[p] # 0>>}
    /\ Goto("ext")
    /\ idx' = idx + 1
    /\ UNCHANGED <<outsideInstall, lnk, inputVars, histVars>>

Phase6ExtEnd == BatchEnd("ext", "ret")

(***************************************************************************)
(* Phase 7: phase7_create_shortcut                                          *)
(***************************************************************************)
\* an existing VSCode.lnk is removed, then vscode_cmd_insertion rewrites
\* code.cmd
Phase7Insert ==
    /\ pc = "p7insert"
    /\ lnk' = "absent"
    /\ Goto("p7init")
    /\ UNCHANGED <<outsideInstall, killed, inputVars, histVars, idx>>

\* load_init_config(): a missing init.yml is sys.exit(message); then the
\* shortcut is created and saved when win32com was imported, a line is
\* printed when it was not, and the phase returns
Phase7Shortcut ==
    /\ pc = "p7init"
    /\ \/ Return /\ lnk' = IF hasWin32com THEN "new" ELSE lnk
       \/ SysExit /\ UNCHANGED lnk
    /\ UNCHANGED <<outsideInstall, killed, inputVars, histVars>>

(***************************************************************************)
(* main() after phase 7: the closing message and pause_if_needed            *)
(***************************************************************************)
FinalAuto ==
    /\ pc = "ret"
    /\ phase = 7
    /\ autoContinue
    /\ pc' = "done"
    /\ exitCode' = 0
    /\ UNCHANGED <<outsideInstall, lnk, killed, inputVars, histVars, phase, idx, phaseLog, active, threadsLeft>>

FinalPrompt ==
    /\ pc = "ret"
    /\ phase = 7
    /\ ~autoContinue
    /\ Goto("finalinput")
    /\ UNCHANGED <<outsideInstall, lnk, killed, inputVars, histVars, idx>>

FinalEnter ==
    /\ pc = "finalinput"
    /\ pc' = "done"
    /\ exitCode' = 0
    /\ UNCHANGED <<outsideInstall, lnk, killed, inputVars, histVars, phase, idx, phaseLog, active, threadsLeft>>

Next ==
    \/ CallPhase \/ GateAuto \/ GatePrompt \/ UserEnter
    \/ Phase1Load \/ Phase1Check \/ Phase1Return
    \/ Phase2Zip \/ Phase2ZipEnd \/ Phase2Exe \/ Phase2ExeEnd \/ Phase2Java
    \/ Phase3Core \/ Phase3CoreEnd \/ Phase3Plugin \/ Phase3PluginEnd
    \/ Phase4Load \/ Phase4Venv \/ Phase4Find \/ Phase4Whl \/ Phase4WhlEnd
    \/ Phase5Copy \/ Phase5Zapp \/ Phase5Zcode
    \/ Phase6Load \/ Phase6Ext \/ Phase6Kill \/ Phase6ExtEnd
    \/ Phase7Insert \/ Phase7Shortcut
    \/ FinalAuto \/ FinalPrompt \/ FinalEnter

Spec == Init /\ [][Next]_vars

(***************************************************************************)
(* Claims about the install pipeline (checked under Spec).                  *)
(***************************************************************************)
Missing == ToolNames(tools) \ present

AllItems(g) == {<<g, i>> : i \in 1..Count(g)}

\* C1: when at least one declared tool has no archive, the run never gets
\* past phase 1: no extraction (zip or self-extracting) is attempted for any
\* tool, phase 1 never returns, the only way the run ends is the exit with
\* status 1 inside phase 1, and until then the run can always go on.
C1_MissingArchiveStopsInPhase1 ==
    Missing # {} =>
        /\ extractTried = {}
        /\ attempted = {}
        /\ phase <= 1
        /\ pc \in {"main", "gate", "input", "p1load", "p1check", "exited"}
        /\ pc = "exited" => (phase = 1 /\ exitCode = 1)
        /\ pc # "exited" => (exitCode = -1 /\ ENABLED Next)

\* a run that found the archives of the first tools present and then ended
\* at a later tool whose archive is missing
C1_Witness ==
    /\ pc = "exited"
    /\ exitCode = 1
    /\ idx > 2
    /\ idx <= Len(tools)
    /\ tools[idx].name \in Missing
    /\ \E i \in 1..Len(tools) : i > idx /\ tools[i].name \in present /\ tools[i].type = "zip"
    /\ extractTried = {}

\* C2: the phases are called in the order 1,2,...,7, each at most once; a
\* phase is called only when no phase is active (the previous one returned);
\* at most one phase is active; after the process was terminated (sys.exit or
\* an uncaught exception) no phase is called.
C2_OrderInv ==
    /\ Len(phaseLog) <= 7
    /\ \A i \in 1..Len(phaseLog) : phaseLog[i] = i
    /\ Cardinality(active) <= 1
    /\ active \subseteq {phase}
    /\ pc \in {"exited", "crashed", "done", "ret", "main", "finalinput"} => active = {}

C2_OrderStep ==
    /\ phaseLog' # phaseLog =>
          /\ pc \in {"main", "ret"}
          /\ active = {}
          /\ phaseLog' = Append(phaseLog, Len(phaseLog) + 1)
          /\ active' = {Len(phaseLog) + 1}
    /\ pc \in {"exited", "crashed", "done"} => (phaseLog' = phaseLog /\ pc' = pc)

C2_PhasesSequential == [](C2_OrderInv) /\ [][C2_OrderStep]_vars

\* a run that went through all seven phases
C2_Witness ==
    /\ pc = "done"
    /\ phaseLog = <<1, 2, 3, 4, 5, 6, 7>>

\* C3 (as claimed): a sub-install of a batch phase that exceeds its timeout
\* is caught and logged, and the loop goes on with the next item.
C3_TimeoutStep ==
    (last' # last /\ last'.out = "timeout" /\ last'.grp \in BatchGroups) =>
        /\ <<last'.grp, "timeout">> \in caught'
        /\ pc' = last'.grp
        /\ idx' = idx + 1

C3_TimeoutTolerated == [][C3_TimeoutStep]_vars

\* C4: a sub-install of a batch phase that exits nonzero is caught and
\* logged and the loop goes on with the next item; a batch phase that has
\* returned has attempted every item of its batches; a run that ends after
\* phase 7 ends with status 0 having attempted every item.
C4_NonzeroStep ==
    (last' # last /\ last'.out = "nonzero" /\ last'.grp \in BatchGroups) =>
        /\ <<last'.grp, "nonzero">> \in caught'
        /\ pc' = last'.grp
        /\ idx' = idx + 1
        /\ exitCode' = -1

C4_Attempted ==
    /\ (phase > 3 \/ (phase = 3 /\ pc = "ret")) =>
           (AllItems("core") \cup AllItems("plugin")) \subseteq attempted
    /\ (phase > 4 \/ (phase = 4 /\ pc = "ret")) => AllItems("whl") \subseteq attempted
    /\ (phase > 6 \/ (phase = 6 /\ pc = "ret")) => AllItems("ext") \subseteq attempted
    /\ pc = "done" => (exitCode = 0 /\ phase = 7)

C4_NonzeroTolerated == [](C4_Attempted) /\ [][C4_NonzeroStep]_vars

\* a run that ended with status 0 although a sub-install exited nonzero in
\* each of the four batch loops
C4_Witness ==
    /\ pc = "done"
    /\ exitCode = 0
    /\ \A g \in BatchGroups : <<g, "nonzero">> \in caught

\* the phases whose body can end in sys.exit: a manifest or an archive
\* missing (1), pip.yml, python.exe or the venv (4), a schema file (5),
\* extensions.yml (6), init.yml (7)
FatalPhases == {1, 4, 5, 6, 7}

\* phases 1..k, in order
UpTo(k) == [i \in 1..k |-> i]

C12_StatusInv ==
    /\ exitCode = 0 <=> pc = "done"
    /\ pc = "done" => (phase = 7 /\ phaseLog = UpTo(7) /\ active = {})
    /\ pc = "exited" =>
          /\ exitCode = 1
          /\ phase \in FatalPhases
          /\ phaseLog = UpTo(phase)
    /\ pc = "crashed" => exitCode # 0

C12_StatusStep ==
    (pc \in {"exited", "crashed", "done"}) => (phaseLog' = phaseLog /\ exitCode' = exitCode)

\* C12: the process ends with status 0 exactly when main() has run to its
\* end, all seven phases having returned; a body that meets a fatal
\* precondition failure (a manifest, an archive, python.exe, the venv or a
\* schema file missing) ends the process with a nonzero status, the phases
\* called being exactly those up to the failing one, and none is called
\* afterwards.
C12_ExitStatus == [](C12_StatusInv) /\ [][C12_StatusStep]_vars

\* the process ended in phase 5 on a missing schema file, and elsewhere with 0
C12_Witness ==
    /\ pc = "exited"
    /\ phase = 5
    /\ exitCode = 1
    /\ <<"whl", "nonzero">> \in caught

\* positions of main() before the body of the phase called last has started
BeforeBody == {"main", "gate", "input"}

C13_GateInv ==
    /\ (~autoContinue /\ pc \notin BeforeBody) => \A k \in 1..phase : k \in acked
    /\ (~autoContinue /\ pc \in {"gate", "input"}) => phase \notin acked
    /\ autoContinue => (pc \notin {"input", "finalinput"} /\ acked = {})

C13_GateStep ==
    (pc \in BeforeBody /\ pc' \notin BeforeBody)
        => \/ autoContinue /\ pc = "gate"
           \/ ~autoContinue /\ pc = "input" /\ phase \in acked' /\ phase \notin acked

\* C13: the body of a phase starts only from its gate; in an interactive run
\* only once the user has acknowledged the prompt of that phase, and with
\* auto_continue straight from the gate, main() never waiting for input.
C13_GateBeforeBody == [](C13_GateInv) /\ [][C13_GateStep]_vars

\* an interactive run inside the body of phase 3, three prompts acknowledged
C13_Witness ==
    /\ ~autoContinue
    /\ pc = "core"
    /\ acked = {1, 2, 3}

\* phase 7 has returned
Phase7Completed == phase = 7 /\ pc \in {"ret", "finalinput", "done"}

\* C14 (as claimed): once phase 7 has completed, without win32com the
\* shortcut file is as it was when the run started (an existing VSCode.lnk
\* is still there, none was created), and with win32com the shortcut saved
\* by this run is at the shortcut path.
C14_ShortcutSkippedEntirely ==
    Phase7Completed => lnk = (IF hasWin32com THEN "new" ELSE lnk0)

\* the extension whose install finished last has had its taskkill loop
KilledLast == \E nz \in BOOLEAN : <<last.i, nz>> \in killed

\* whenever the loop over the extensions is about to install or to end, the
\* editor was terminated after the install that finished last exactly when
\* that install succeeded; a failed install is never followed by a taskkill
C23_KillInv ==
    /\ (pc = "ext" /\ last.grp = "ext") => (KilledLast <=> last.out = "ok")
    /\ \A k \in killed : k[1] \in 1..Count("ext")
    /\ pc = "extkill" => (last.grp = "ext" /\ last.out = "ok" /\ last.i = idx)

\* a taskkill loop runs right after a successful install and, whatever its
\* exit statuses, hands over to the next iteration of the loop
C23_KillStep ==
    /\ killed' # killed =>
          /\ pc = "extkill"
          /\ last.out = "ok"
          /\ \E nz \in BOOLEAN : killed' = killed \cup {<<last.i, nz>>}
          /\ pc' = "ext"
          /\ idx' = idx + 1
          /\ exitCode' = -1
    /\ (last' # last /\ last'.grp = "ext") =>
          /\ pc = "ext"
          /\ (last.grp = "ext" /\ last.out = "ok") => KilledLast
          /\ (pc' = "extkill") <=> (last'.out = "ok")

\* C23: in phase 6 the editor's process images are forcibly terminated after
\* each extension install that succeeded and before the next install starts,
\* never after an install that failed, and a taskkill that finds no such
\* process (nonzero exit) does not stop the phase.
C23_KillAfterEachSuccess == [](C23_KillInv) /\ [][C23_KillStep]_vars

\* phase 6 has returned after a failed install that no taskkill followed and
\* a successful install whose taskkill exited nonzero
C23_Witness ==
    /\ phase = 6
    /\ pc = "ret"
    /\ <<"ext", "nonzero">> \in caught
    /\ \E i \in 1..Count("ext") : <<i, TRUE>> \in killed
    /\ Cardinality(killed) < Count("ext")

(***************************************************************************)
(* The spinner-wrapped blocking calls: extract_zip_with_spinner and          *)
(* copy_contents_to_with_spinner (utils/file_utils.py), run_with_spinner     *)
(* (utils/message_utils.py).  A caller makes up to MaxCalls calls; each call *)
(* creates its own stop_event and starts its own non-daemon spinner thread.  *)
(***************************************************************************)
Wrappers == {"extract", "copy", "run"}

SpinnerChars == 4

\* how the blocking operation of a wrapper can end
OpOutcomes(k) ==
    CASE k = "extract" -> {"ok", "raise"}
      [] k = "copy"    -> {"ok", "raise"}
      [] k = "run"     -> {"ok", "nonzero", "timeout", "other"}

\* where the wrapper goes when its blocking operation ended with out:
\*   "set"    stop_event.set() of the straight-line tail or of the finally clause
\*   "hset"   stop_event.set() of an except clause of run_with_spinner
\*   "caller" the exception leaves the wrapper at once
AfterOp(k, out) ==
    CASE k = "extract" -> IF out = "ok" THEN "set" ELSE "caller"
      [] k = "copy"    -> "set"
      [] k = "run"     -> IF out \in {"nonzero", "timeout"} THEN "hset" ELSE "set"

\* the exception still propagating when the wrapper's last join returns
Pending(k, out) ==
    CASE k = "extract" -> "none"
      [] k = "copy"    -> "none"
      [] k = "run"     -> IF out = "ok" THEN "none" ELSE out

ThreadAlive == sThread \notin {"none", "dead"}

SpinnerInit == InstallIdle /\ SpinnerIdle /\ FSIdle /\ UnIdle /\ TplIdle /\ GlIdle /\ RmIdle /\ ExtIdle /\ JavaIdle

\* the caller calls a wrapper: Event(), Thread(...).start()
SCall ==
    /\ sMain = "caller"
    /\ sCalls < MaxCalls
    /\ \E k \in Wrappers : sKind' = k
    /\ sOrphans' = IF ThreadAlive THEN sOrphans + 1 ELSE sOrphans
    /\ sStop' = FALSE
    /\ sThread' = "startup"
    /\ sIdx' = 0
    /\ sMain' = "op"
    /\ sLeave' = "none"
    /\ sExc' = "none"
    /\ sCalls' = sCalls + 1
    /\ UNCHANGED outsideSpinner

\* the blocking operation (extractall, copytree, subprocess.run) ends
SOpDone ==
    /\ sMain = "op"
    /\ \E out \in OpOutcomes(sKind) :
         /\ sMain' = AfterOp(sKind, out)
         /\ sExc' = Pending(sKind, out)
         /\ sLeave' = IF AfterOp(sKind, out) = "caller" THEN "raised" ELSE "none"
    /\ UNCHANGED <<outsideSpinner, sKind, sStop, sThread, sIdx, sCalls, sOrphans>>

\* stop_event.set()
SSet ==
    /\ sMain \in {"hset", "set"}
    /\ sStop' = TRUE
    /\ sMain' = IF sMain = "hset" THEN "hjoin" ELSE "join"
    /\ UNCHANGED <<outsideSpinner, sKind, sThread, sIdx, sLeave, sCalls, sExc, sOrphans>>

\* spinner_thread.join() returns once the thread has ended; after the join
\* of an except clause the exception is re-raised into the finally clause,
\* after the last join the wrapper returns or lets the exception out
SJoin ==
    /\ sMain \in {"hjoin", "join"}
    /\ sThread = "dead"
    /\ IF sMain = "hjoin"
         THEN sMain' = "set" /\ UNCHANGED sLeave
         ELSE /\ sMain' = "caller"
              /\ sLeave' = IF sExc = "none" THEN "returned" ELSE "raised"
    /\ UNCHANGED <<outsideSpinner, sKind, sStop, sThread, sIdx, sCalls, sExc, sOrphans>>

\* the spinner thread: print(msg_startup); while not stop_event.is_set(): ...
TStartup ==
    /\ sThread = "startup"
    /\ sThread' = "check"
    /\ UNCHANGED <<outsideSpinner, sKind, sMain, sStop, sIdx, sLeave, sCalls, sExc, sOrphans>>

TCheck ==
    /\ sThread = "check"
    /\ sThread' = IF sStop THEN "complete" ELSE "paint"
    /\ UNCHANGED <<outsideSpinner, sKind, sMain, sStop, sIdx, sLeave, sCalls, sExc, sOrphans>>

TPaint ==
    /\ sThread = "paint"
    /\ sIdx' = (sIdx + 1) % SpinnerChars
    /\ sThread' = "sleep"
    /\ UNCHANGED <<outsideSpinner, sKind, sMain, sStop, sLeave, sCalls, sExc, sOrphans>>

TSleep ==
    /\ sThread = "sleep"
    /\ sThread' = "check"
    /\ UNCHANGED <<outsideSpinner, sKind, sMain, sStop, sIdx, sLeave, sCalls, sExc, sOrphans>>

TComplete ==
    /\ sThread = "complete"
    /\ sThread' = "dead"
    /\ UNCHANGED <<outsideSpinner, sKind, sMain, sStop, sIdx, sLeave, sCalls, sExc, sOrphans>>

SpinnerNext ==
    \/ SCall \/ SOpDone \/ SSet \/ SJoin
    \/ TStartup \/ TCheck \/ TPaint \/ TSleep \/ TComplete

SpecSpinner == SpinnerInit /\ [][SpinnerNext]_vars

\* C5 (as claimed): whenever control has left a spinner-wrapped call, by a
\* return or by an exception, the stop flag of that call is set, its spinner
\* thread has ended, and no spinner thread of an earlier call is running.
C5_SpinnerJoined ==
    (sMain = "caller" /\ sLeave # "none") =>
        /\ sStop
        /\ ~ThreadAlive
        /\ sOrphans = 0

(***************************************************************************)
(* The directory helpers: find_real_directory (utils/path_utils.py),         *)
(* move_contents_up and cleanup_directory_except (utils/file_utils.py,       *)
(* file_utils.py), and the extract-then-normalize step of phase 2            *)
(* (install.py).                                                             *)
(*                                                                           *)
(* A name is a sequence of characters, a path a sequence of names relative   *)
(* to the destination directory (the empty path is the directory itself),    *)
(* and a tree maps the paths that exist to their nodes.  A file node         *)
(* carries where its content came from.  File-system calls do what they are  *)
(* documented to do; faults of the medium (locked files, full disks) are     *)
(* outside the model.                                                         *)
(***************************************************************************)
\* entries (beside the directory itself) of a tree a caller may find, and of
\* the payload of an archive
MaxEntries == 3

aZip == <<"a", ".", "z", "i", "p">>
AZIP == <<"A", ".", "Z", "I", "P">>
DotZip == <<".", "z", "i", "p">>
DotZIP == <<".", "Z", "I", "P">>

\* the names entries can have, and those found inside an archive
Names == {aZip, AZIP, <<"w">>, <<"x">>}
PayloadNames == {<<"w">>, <<"b">>}

\* os.path.basename(os.path.abspath(dest_dir)): the destination directory's
\* own name
DestName == <<"x">>

Root == << >>
DirNode == [dir |-> TRUE, src |-> "", at |-> << >>]
FileNode(s, p) == [dir |-> FALSE, src |-> s, at |-> p]
EmptyDir == (Root :> DirNode)

\* the trees with one more entry than t: a file or a directory named from
\* names in one of the directories of t
Extend(t, names, s) ==
    UNION { { [q \in DOMAIN t \cup {Append(dn[1], dn[2])} |->
                 IF q \in DOMAIN t THEN t[q]
                 ELSE IF k THEN DirNode ELSE FileNode(s, q)] : k \in BOOLEAN }
            : dn \in { x \in {d \in DOMAIN t : t[d].dir} \X names :
                         Append(x[1], x[2]) \notin DOMAIN t } }

RECURSIVE TreesUpTo(_, _, _)
TreesUpTo(n, names, s) ==
    IF n = 0 THEN {EmptyDir}
    ELSE LET T == TreesUpTo(n - 1, names, s)
         IN  T \cup UNION {Extend(t, names, s) : t \in T}

\* ---- strings ------------------------------------------------------------
LowerChar(c) ==
    CASE c = "A" -> "a"
      [] c = "C" -> "c"
      [] c = "E" -> "e"
      [] c = "L" -> "l"
      [] c = "O" -> "o"
      [] c = "S" -> "s"
      [] c = "T" -> "t"
      [] c = "I" -> "i"
      [] c = "P" -> "p"
      [] c = "Z" -> "z"
      [] OTHER   -> c

\* str.lower()
Lower(s) == [i \in 1..Len(s) |-> LowerChar(s[i])]

\* str.endswith(suf)
EndsWith(s, suf) ==
    /\ Len(suf) <= Len(s)
    /\ SubSeq(s, Len(s) - Len(suf) + 1, Len(s)) = suf

\* fnmatch of one path component: * matches any run, ? any one character
RECURSIVE FnMatch(_, _)
FnMatch(pat, s) ==
    IF pat = << >> THEN s = << >>
    ELSE IF Head(pat) = "*"
           THEN FnMatch(Tail(pat), s) \/ (s # << >> /\ FnMatch(pat, Tail(s)))
    ELSE IF s = << >> THEN FALSE
    ELSE (Head(pat) = "?" \/ Head(pat) = Head(s)) /\ FnMatch(Tail(pat), Tail(s))

MatchAlways(pat, s) == TRUE

\* glob.glob on a component: fnmatch on the case-normalized names
Match(pat, s) == FnMatch(Lower(pat), Lower(s))

\* glob.has_magic
HasMagic(pat) == \E i \in 1..Len(pat) : pat[i] \in {"*", "?", "["}

\* ---- trees --------------------------------------------------------------
Basename(p) == p[Len(p)]

\* os.listdir(d), as paths
Kids(t, d) == {p \in DOMAIN t : Len(p) = Len(d) + 1 /\ SubSeq(p, 1, Len(d)) = d}

\* d and everything below it
Under(t, d) == {p \in DOMAIN t : Len(p) >= Len(d) /\ SubSeq(p, 1, Len(d)) = d}

\* the orders os.listdir can return the elements of S in
Orders(S) ==
    {f \in [1..Cardinality(S) -> S] :
        \A i, j \in 1..Cardinality(S) : i # j => f[i] # f[j]}

\* shutil.rmtree(d); os.rmdir(d) of an empty d; os.remove(d)
RmTree(t, d) == [p \in DOMAIN t \ Under(t, d) |-> t[p]]

\* os.rename(src, dst) with everything below src
Rename(t, src, dst) ==
    LET moved == {dst \o SubSeq(p, Len(src) + 1, Len(p)) : p \in Under(t, src)}
        kept  == DOMAIN t \ Under(t, src)
    IN  [q \in kept \cup moved |->
            IF q \in moved THEN t[src \o SubSeq(q, Len(dst) + 1, Len(q))]
            ELSE t[q]]

\* shutil.move(src, dst): into dst when dst is a directory, over dst when
\* both are files, to dst when nothing is there
ShutilMove(t, src, dst) ==
    IF src = dst THEN [fs |-> t, err |-> "none"]
    ELSE IF dst \in DOMAIN t /\ t[dst].dir
      THEN LET real == Append(dst, Basename(src))
           IN  IF real \in DOMAIN t
                 THEN [fs |-> t, err |-> "shutil.Error"]
                 ELSE [fs |-> Rename(t, src, real), err |-> "none"]
    ELSE IF dst \in DOMAIN t /\ t[src].dir
      THEN [fs |-> t, err |-> "FileExistsError"]
    ELSE [fs |-> Rename(t, src, dst), err |-> "none"]

\* the loop of move_contents_up over the listed items, then os.rmdir
RECURSIVE MoveItems(_, _, _)
MoveItems(t, bogus, items) ==
    IF items = << >>
      THEN IF Kids(t, bogus) = {}
             THEN [fs |-> RmTree(t, bogus), err |-> "none"]
             ELSE [fs |-> t, err |-> "OSError"]
      ELSE LET r == ShutilMove(t, Append(bogus, Head(items)), <<Head(items)>>)
           IN  IF r.err # "none" THEN r
               ELSE MoveItems(r.fs, bogus, Tail(items))

\* glob.glob(search_path): os.path.join(parent, "") names the parent itself
Matches(t, marker) ==
    IF marker = << >>
      THEN {p \in DOMAIN t : p = Root}
      ELSE {p \in Kids(t, Root) : Match(marker, Basename(p))}

\* move_contents_up(parent_dir, target_dir), marker being the basename of
\* target_dir (empty for None): the results it can have, one for each match
\* that can be the most recently modified and each order of os.listdir
MoveContentsUp(t, marker) ==
    IF Matches(t, marker) = {} THEN {[fs |-> t, err |-> "none"]}
    ELSE UNION {
           IF ~t[b].dir THEN {[fs |-> t, err |-> "NotADirectoryError"]}
           ELSE {MoveItems(t, b, o) : o \in Orders({Basename(k) : k \in Kids(t, b)})}
           : b \in Matches(t, marker) }

\* a directory that holds a file not ending with ext
NonTarget(t, d, ext) ==
    \E f \in Kids(t, d) : ~t[f].dir /\ ~EndsWith(Lower(Basename(f)), ext)

\* find_real_directory(start_path, target_pattern): the directories os.walk
\* (top-down, siblings in any order) can reach first among those holding a
\* non-target file
FindRealDirectory(t, ext) ==
    {d \in DOMAIN t :
        /\ t[d].dir
        /\ NonTarget(t, d, ext)
        /\ \A i \in 0..(Len(d) - 1) : ~NonTarget(t, SubSeq(d, 1, i), ext)}

\* os.path.basename of what find_real_directory returned (empty for None)
RealMarkers(t) ==
    IF FindRealDirectory(t, DotZip) = {} THEN {<< >>}
    ELSE {IF d = Root THEN DestName ELSE Basename(d) : d \in FindRealDirectory(t, DotZip)}

\* cleanup_directory_except(target_dir, except_pattern)
CleanupDirectoryExcept(t, d, s) ==
    IF d \notin DOMAIN t THEN t
    ELSE LET gone == {k \in Kids(t, d) :
                         t[k].dir \/ ~EndsWith(Lower(Basename(k)), s)}
         IN  [p \in DOMAIN t \ UNION {Under(t, k) : k \in gone} |-> t[p]]

\* ---- archives -----------------------------------------------------------
Payloads == TreesUpTo(MaxEntries, PayloadNames, "zip")

\* members of the archive that cannot be written: a file where a directory
\* is, or a directory where a file is
Conflicts(t, pl) == {p \in DOMAIN pl \cap DOMAIN t : t[p].dir # pl[p].dir}

\* ZipFile.extractall(dest): members are created, files overwritten
Merge(t, pl) ==
    [p \in DOMAIN t \cup DOMAIN pl |->
        IF p \in DOMAIN pl /\ ~pl[p].dir THEN pl[p]
        ELSE IF p \in DOMAIN t THEN t[p] ELSE pl[p]]

\* what an extraction that raised can have written before
Partial(t, pl) ==
    {[p \in S |-> pl[p]] :
        S \in {X \in SUBSET DOMAIN pl :
                 /\ Root \in X
                 /\ X \cap Conflicts(t, pl) = {}
                 /\ \A p \in X : p = Root \/ SubSeq(p, 1, Len(p) - 1) \in X}}

\* the archives get_latest_file can have found in the destination directory
ArchivePattern == <<"*", ".", "z", "i", "p">>
Archives(t) == {p \in Kids(t, Root) : Match(ArchivePattern, Basename(p))}

Markers == {<< >>, <<"w">>, <<"x">>, <<"*">>}
Suffixes == {<< >>, DotZip, DotZIP}

NoCall == [op |-> "none", marker |-> << >>, suffix |-> << >>, payload |-> << >>,
           err |-> "none"]

FSInit ==
    /\ InstallIdle
    /\ SpinnerIdle
    /\ UnIdle
    /\ TplIdle
    /\ GlIdle
    /\ RmIdle
    /\ ExtIdle
    /\ JavaIdle
    /\ fs \in TreesUpTo(MaxEntries, Names, "dest")
    /\ fs0 = fs
    /\ fsRun = << >>
    /\ fsPrev = fs
    /\ fsPc = "start"
    /\ calls = << >>

\* the caller goes on after a helper that returned, and stops at one that raised
Done(op, err, then) ==
    /\ calls' = Append(calls, op)
    /\ fsPrev' = fs
    /\ fsPc' = IF err = "none" THEN then ELSE "raised"
    /\ fsRun' = IF then = "ran" /\ err = "none" THEN fs' ELSE fsRun
    /\ UNCHANGED <<outsideFS, fs0>>

\* the archive's content: any payload on the first run, the same one again on
\* the second
PayloadsNow ==
    IF fsPc = "start" THEN Payloads ELSE {calls[1].payload}

\* the archive phase 1 found: any match on the first run, on the second an
\* archive file the first run can have read
ArchivesNow ==
    IF fsPc = "start" THEN Archives(fs)
    ELSE {a \in Archives(fs) \cap Archives(fs0) : ~fs0[a].dir}

\* phase 2: extract_zip_with_spinner(zip_path, dest_dir), on the first run
\* and on a second run over what the first one left
ExtractZip ==
    /\ fsPc \in {"start", "ran"}
    /\ LET then == IF fsPc = "start" THEN "extracted" ELSE "extracted2"
       IN  \E a \in ArchivesNow, pl \in PayloadsNow :
             IF fs[a].dir
               THEN /\ fs' = fs
                    /\ Done([NoCall EXCEPT !.op = "extract", !.payload = pl,
                                           !.err = "PermissionError"],
                            "PermissionError", then)
             ELSE IF Conflicts(fs, pl) # {}
               THEN /\ \E part \in Partial(fs, pl) : fs' = Merge(fs, part)
                    /\ Done([NoCall EXCEPT !.op = "extract", !.payload = pl,
                                           !.err = "OSError"],
                            "OSError", then)
             ELSE /\ fs' = Merge(fs, pl)
                  /\ Done([NoCall EXCEPT !.op = "extract", !.payload = pl],
                          "none", then)

\* phase 2: move_contents_up(dest_dir, find_real_directory(dest_dir, ".zip"))
Normalize ==
    /\ fsPc \in {"extracted", "extracted2"}
    /\ \E m \in RealMarkers(fs) : \E r \in MoveContentsUp(fs, m) :
         /\ fs' = r.fs
         /\ Done([NoCall EXCEPT !.op = "normalize", !.marker = m, !.err = r.err],
                 r.err, IF fsPc = "extracted" THEN "ran" ELSE "done")

\* a caller of move_contents_up
CallMoveContentsUp ==
    /\ fsPc \in {"start", "once"}
    /\ \E m \in Markers : \E r \in MoveContentsUp(fs, m) :
         /\ fs' = r.fs
         /\ Done([NoCall EXCEPT !.op = "move", !.marker = m, !.err = r.err],
                 r.err, IF fsPc = "start" THEN "once" ELSE "done")

\* a caller of cleanup_directory_except
CallCleanup ==
    /\ fsPc \in {"start", "once"}
    /\ \E s \in Suffixes :
         /\ fs' = CleanupDirectoryExcept(fs, Root, s)
         /\ Done([NoCall EXCEPT !.op = "cleanup", !.suffix = s],
                 "none", IF fsPc = "start" THEN "once" ELSE "done")

FSNext == ExtractZip \/ Normalize \/ CallMoveContentsUp \/ CallCleanup

SpecFS == FSInit /\ [][FSNext]_vars

\* the latest call and the one before it
LastCall == calls[Len(calls)]
CallBefore == calls[Len(calls) - 1]

\* the single top-level folder all of an archive's content sits under
Wrapper(pl) == CHOOSE p \in Kids(pl, Root) : TRUE
Wrapped(pl) ==
    /\ Cardinality(Kids(pl, Root)) = 1
    /\ pl[Wrapper(pl)].dir
    /\ Kids(pl, Wrapper(pl)) # {}

\* C6 (as claimed): once a fresh destination directory, holding nothing but
\* archive files, has been extracted into and normalized, an archive whose
\* content sits under a single top-level folder has left that folder's
\* entries directly under the destination directory and the folder is gone.
C6_NoWrapperRemains ==
    ( /\ Len(calls) = 2
      /\ CallBefore.op = "extract" /\ CallBefore.err = "none"
      /\ LastCall.op = "normalize" /\ LastCall.err = "none"
      /\ Kids(fs0, Root) = Archives(fs0)
      /\ \A a \in Archives(fs0) : ~fs0[a].dir
      /\ Wrapped(CallBefore.payload) )
    => LET pl == CallBefore.payload
       IN  /\ Wrapper(pl) \notin DOMAIN fs
           /\ \A k \in Kids(pl, Wrapper(pl)) : <<Basename(k)>> \in DOMAIN fs

\* two calls of move_contents_up in succession with the same marker
TwiceInSuccession ==
    /\ Len(calls) = 2
    /\ CallBefore.op = "move" /\ LastCall.op = "move"
    /\ CallBefore.marker = LastCall.marker
    /\ CallBefore.err = "none"

C8_KeepsFilesEndingWithSuffix ==
    (calls # << >> /\ LastCall.op = "cleanup")
        => \A k \in Kids(fsPrev, Root) :
              (~fsPrev[k].dir /\ EndsWith(Basename(k), LastCall.suffix))
                  => k \in DOMAIN fs

\* move_contents_up was called last, by the normalizer or by another caller
MovedLast == calls # << >> /\ LastCall.op \in {"move", "normalize"}

\* C19: move_contents_up returns silently and leaves the contents of parent
\* as they were whenever there is nothing to collapse: the marker is empty
\* (find_real_directory found no directory) or no entry of parent matches
\* the basename of the marker.
C19_NothingToCollapse ==
    (MovedLast /\ (LastCall.marker = << >> \/ Matches(fsPrev, LastCall.marker) = {}))
        => (fs = fsPrev /\ LastCall.err = "none")

\* C20: the normalizer is a no-op on a destination that is collapsed
\* already: when the destination root itself holds a non-archive file, no
\* entry of the destination is moved, renamed or removed, whatever the
\* payload, a child folder named like the destination included.
C20_CollapsedIsNoOp ==
    (calls # << >> /\ LastCall.op = "normalize" /\ NonTarget(fsPrev, Root, DotZip))
        => (fs = fsPrev /\ LastCall.err = "none")

\* t with the folder b of the top level collapsed and nothing lost: every
\* entry outside b is as it was, and every entry below b is one level up
\* under its own name with its own content
C28_CollapsedInto(t, b, u) ==
    LET kept  == DOMAIN t \ Under(t, b)
        moved == {Tail(p) : p \in Under(t, b) \ {b}}
    IN  /\ kept \cap moved = {}
        /\ DOMAIN u = kept \cup moved
        /\ \A p \in kept : u[p] = t[p]
        /\ \A q \in moved : u[q] = t[b \o q]

\* C28 (as claimed): move_contents_up never loses or overwrites an entry:
\* when it has collapsed a nested folder, parent holds its previous entries
\* other than that folder and every entry of the folder under its own name
\* with its own content, also when the folder holds an entry named like an
\* entry of parent or like the folder itself.
C28_NothingLostOrOverwritten ==
    ( /\ calls # << >>
      /\ LastCall.op \in {"move", "normalize"}
      /\ LastCall.err = "none"
      /\ Matches(fsPrev, LastCall.marker) # {} )
    => \E b \in Matches(fsPrev, LastCall.marker) :
          /\ Len(b) = 1
          /\ fsPrev[b].dir
          /\ C28_CollapsedInto(fsPrev, b, fs)

\* phase 2 has started a second time on what its first run left
SecondRun ==
    /\ Len(calls) >= 3
    /\ calls[1].op = "extract"
    /\ calls[2].op = "normalize"

\* C29 (as claimed): a second run of phase 2 on a destination where it has
\* completed, with the same archive, completes without error and leaves the
\* destination with the contents the first run left; no wrapper folder is
\* back next to the collapsed payload.
C29_SecondRunChangesNothing ==
    SecondRun => /\ fsPc # "raised"
                 /\ fsPc = "done" => fs = fsRun

(***************************************************************************)
(* uninstall.py (main, update_java_dirs, extract_extension_from_pattern,     *)
(* restore_backup) and the backup step of workspace.py, on the tree of the   *)
(* workspace root.  The scripts are run one after the other, each to its     *)
(* end.                                                                      *)
(***************************************************************************)
\* entries of a tool directory when the scripts start
MaxToolEntries == 2
\* script runs
MaxRuns == 3
\* seconds that pass during the runs
MaxTicks == 3
\* the second the first run starts in
ClockStart == 8

nVscode == <<"v", "s", "c", "o", "d", "e">>
nJava == <<"j", "a", "v", "a">>
n8 == <<"8">>
nWorkspace == <<"w", "o", "r", "k", "s", "p", "a", "c", "e">>
tZip == <<"z", "i", "p">>
ConfigName ==
    <<"z", "o", "w", "e", ".", "c", "o", "n", "f", "i", "g", ".", "j", "s", "o", "n">>
BackupPrefix ==
    <<"z", "o", "w", "e", ".", "c", "o", "n", "f", "i", "g", ".",
      "b", "a", "c", "k", "u", "p", "_">>
DotJson == <<".", "j", "s", "o", "n">>
BackupGlob == BackupPrefix \o <<"*">> \o DotJson

WsDir == <<nWorkspace>>
ConfigPath == <<nWorkspace, ConfigName>>

\* tools.yml as install.py and download.py read it: the archive of a tool
\* is looked up as pattern + "." + type
ManifestU1 ==
    << [name |-> nVscode, dir |-> <<nVscode>>, pattern |-> <<"a", "*">>, type |-> tZip] >>
ManifestU2 ==
    << [name |-> nVscode, dir |-> <<nVscode>>, pattern |-> <<"a", "*">>, type |-> tZip],
       [name |-> nJava \o n8, dir |-> <<nJava, n8>>, pattern |-> <<"*", "j", "d", "k", "*">>,
        type |-> tZip] >>
\* tools.yml as the docstrings of uninstall.py describe it: workspace is a
\* tool directory, and the pattern may carry the extension of the archives
ManifestU3 ==
    << [name |-> nWorkspace, dir |-> WsDir, pattern |-> <<"a", "*">> \o DotZip, type |-> tZip] >>
ManifestU4 ==
    << [name |-> nWorkspace, dir |-> WsDir, pattern |-> <<"a", "*">>, type |-> tZip] >>
ManifestsU == {ManifestU1, ManifestU2, ManifestU3, ManifestU4}

\* the tree sub placed at path at of t
Graft(t, at, sub) ==
    [p \in DOMAIN t \cup {at \o q : q \in DOMAIN sub} |->
        IF p \in DOMAIN t THEN t[p] ELSE sub[SubSeq(p, Len(at) + 1, Len(p))]]

Digit(n) == <<"0", "1", "2", "3", "4", "5", "6", "7", "8", "9">>[n + 1]

\* the content of the live configuration after v edits
Content(v) == FileNode("config", <<(<<Digit(v)>>)>>)

\* the workspace roots the scripts can start in: the vscode directory with
\* what installs left there, the java directory (absent, empty, or with the
\* folder of one version), and the workspace directory with or without the
\* live configuration
WsTrees ==
    { Graft(Graft(Graft(EmptyDir, <<nVscode>>, v), <<nJava>>, j), WsDir, c) :
        v \in TreesUpTo(MaxToolEntries, {aZip, <<"x">>}, "vscode"),
        j \in {<< >>, EmptyDir} \cup
              {Graft(EmptyDir, <<n8>>, z) : z \in TreesUpTo(MaxToolEntries, {aZip}, "java")},
        c \in {EmptyDir, (Root :> DirNode) @@ (<<ConfigName>> :> Content(0))} }

\* the roots a manifest is run on: one that declares only the workspace
\* directory is run on roots whose vscode directory is empty and that have no
\* java directory, the directories uninstall.py then has nothing to do in
WsTreesOf(manifest) ==
    IF \A i \in DOMAIN manifest : manifest[i].dir = WsDir
      THEN {t \in WsTrees : Kids(t, <<nVscode>>) = {} /\ <<nJava>> \notin DOMAIN t}
      ELSE WsTrees

UnInit ==
    /\ InstallIdle
    /\ SpinnerIdle
    /\ FSIdle
    /\ TplIdle
    /\ GlIdle
    /\ RmIdle
    /\ ExtIdle
    /\ JavaIdle
    /\ unPc = "idle"
    /\ uManifest \in ManifestsU
    /\ ws \in WsTreesOf(uManifest)
    /\ wsPrev = ws
    /\ uTools = << >>
    /\ uIdx = 1
    /\ uClock = ClockStart
    /\ uRuns = 0
    /\ uVer = 0
    /\ uBacked = << >>
    /\ uStart = << >>

\* ---- workspace.py -------------------------------------------------------
\* datetime.now().strftime("%Y%m%d_%H%M%S"), reduced to its seconds: fixed
\* width, zero padded
Stamp(t) == <<Digit(t \div 10), Digit(t % 10)>>

BackupName(t) == BackupPrefix \o Stamp(t) \o DotJson

\* shutil.copy(src, dst) of a file
CopyFile(t, src, dst) ==
    [p \in DOMAIN t \cup {dst} |-> IF p = dst THEN t[src] ELSE t[p]]

\* workspace.py main, from the check of the live configuration on: exit
\* when it is missing, else copy it to the timestamped backup and rewrite it
WorkspaceConfigure ==
    /\ unPc = "idle"
    /\ uRuns < MaxRuns
    /\ uRuns' = uRuns + 1
    /\ IF ConfigPath \notin DOMAIN ws
         THEN UNCHANGED <<ws, wsPrev, uVer, uBacked>>
         ELSE LET backup == Append(WsDir, BackupName(uClock))
                  copied == CopyFile(ws, ConfigPath, backup)
              IN  /\ ws' = [copied EXCEPT ![ConfigPath] = Content(uVer + 1)]
                  /\ wsPrev' = ws
                  /\ uVer' = uVer + 1
                  /\ uBacked' = (BackupName(uClock) :> ws[ConfigPath]) @@ uBacked
    /\ UNCHANGED <<outsideUn, unPc, uManifest, uTools, uIdx, uClock, uStart>>

\* a second passes
Tick ==
    /\ unPc # "off"
    /\ uClock < ClockStart + MaxTicks
    /\ uClock' = uClock + 1
    /\ UNCHANGED <<outsideUn, ws, wsPrev, unPc, uManifest, uTools, uIdx, uRuns, uVer, uBacked, uStart>>

\* ---- uninstall.py -------------------------------------------------------
\* characters that are neither a dot nor a word character
NonWord == {"*", "?", "-", "[", "]"}

\* re.search(r'(\.[\.\w]+)$', pattern): the leftmost dot followed to the end
\* by one or more dots and word characters
ExtractExtension(pattern) ==
    LET I == {i \in 1..(Len(pattern) - 1) :
                 /\ pattern[i] = "."
                 /\ \A j \in (i + 1)..Len(pattern) : pattern[j] \notin NonWord}
    IN  IF I = {} THEN << >>
        ELSE SubSeq(pattern, CHOOSE i \in I : \A k \in I : i <= k, Len(pattern))

\* tools_dic[key] = value: a known key keeps its place, a new one goes last
Put(dic, rec) ==
    IF \E i \in DOMAIN dic : dic[i].name = rec.name
      THEN [i \in DOMAIN dic |-> IF dic[i].name = rec.name THEN rec ELSE dic[i]]
      ELSE Append(dic, rec)

\* the loop of update_java_dirs over the listed folders
RECURSIVE PutJava(_, _)
PutJava(dic, folders) ==
    IF folders = << >> THEN dic
    ELSE PutJava(Put(dic, [name |-> nJava \o Head(folders),
                           dir |-> <<nJava, Head(folders)>>,
                           pattern |-> <<"*", "j", "d", "k", "*">> \o Head(folders)
                                          \o <<"*">> \o DotZip,
                           type |-> << >>]),
                 Tail(folders))

\* glob.glob(os.path.join(workspace_dir, "zowe.config.backup_*.json"))
Backups(t) == {k \in Kids(t, WsDir) : Match(BackupGlob, Basename(k))}

\* main: load_tools_config
UnLoad ==
    /\ unPc = "idle"
    /\ uRuns < MaxRuns
    /\ uRuns' = uRuns + 1
    /\ uTools' = uManifest
    /\ uIdx' = 1
    /\ unPc' = "java"
    /\ uStart' = [b \in Backups(ws) |-> ws[b]]
    /\ UNCHANGED <<outsideUn, ws, wsPrev, uManifest, uClock, uVer, uBacked>>

\* main: update_java_dirs(os.path.join(workspace, "java"), tools)
UnUpdateJava ==
    /\ unPc = "java"
    /\ \E o \in Orders({Basename(k) : k \in {c \in Kids(ws, <<nJava>>) : ws[c].dir}}) :
         uTools' = PutJava(uTools, o)
    /\ unPc' = "clean"
    /\ UNCHANGED <<outsideUn, ws, wsPrev, uManifest, uIdx, uClock, uRuns, uVer, uBacked, uStart>>

\* main: one round of the cleaning loop
UnClean ==
    /\ unPc = "clean"
    /\ uIdx <= Len(uTools)
    /\ ws' = CleanupDirectoryExcept(ws, uTools[uIdx].dir,
                                    ExtractExtension(uTools[uIdx].pattern))
    /\ wsPrev' = ws
    /\ uIdx' = uIdx + 1
    /\ UNCHANGED <<outsideUn, unPc, uManifest, uTools, uClock, uRuns, uVer, uBacked, uStart>>

\* code points, in order
Alphabet ==
    <<"*", "-", ".", "0", "1", "2", "3", "4", "5", "6", "7", "8", "9", "?",
      "A", "I", "P", "Z", "[", "]", "_",
      "a", "b", "c", "d", "e", "f", "g", "i", "j", "k", "n", "o", "p", "s",
      "u", "v", "w", "x", "z">>
CharCode(c) == CHOOSE i \in 1..Len(Alphabet) : Alphabet[i] = c

\* a < b on strings
RECURSIVE LexLess(_, _)
LexLess(a, b) ==
    IF a = << >> THEN b # << >>
    ELSE IF b = << >> THEN FALSE
    ELSE IF Head(a) = Head(b) THEN LexLess(Tail(a), Tail(b))
    ELSE CharCode(Head(a)) < CharCode(Head(b))

SortedForward(S) ==
    CHOOSE f \in Orders(S) :
        \A i, j \in 1..Cardinality(S) : i < j => LexLess(Basename(f[i]), Basename(f[j]))

\* backup_files.sort(reverse=True)
SortedReverse(S) ==
    CHOOSE f \in Orders(S) :
        \A i, j \in 1..Cardinality(S) : i < j => LexLess(Basename(f[j]), Basename(f[i]))

RestoreBackupAll(t) ==
    IF Backups(t) = {} THEN t
    ELSE LET latest == SortedReverse(Backups(t))[1]
             copied == CopyFile(t, latest, ConfigPath)
         IN  [p \in DOMAIN copied \ Backups(t) |-> copied[p]]

\* restore_backup(workspace_dir)
RestoreBackup(t) ==
    IF Backups(t) = {} THEN t
    ELSE LET latest == SortedReverse(Backups(t))[1]
         IN  IF t[latest].dir THEN t
             ELSE RmTree(CopyFile(t, latest, ConfigPath), latest)

\* main: restore_backup once the loop is over
UnRestore ==
    /\ unPc = "clean"
    /\ uIdx > Len(uTools)
    /\ ws' = RestoreBackup(ws)
    /\ wsPrev' = ws
    /\ unPc' = "input"
    /\ UNCHANGED <<outsideUn, uManifest, uTools, uIdx, uClock, uRuns, uVer, uBacked, uStart>>

\* main: input(...), and the script ends
UnEnter ==
    /\ unPc = "input"
    /\ unPc' = "idle"
    /\ uStart' = << >>
    /\ UNCHANGED <<outsideUn, ws, wsPrev, uManifest, uTools, uIdx, uClock, uRuns, uVer, uBacked>>

UnNext ==
    \/ WorkspaceConfigure \/ Tick
    \/ UnLoad \/ UnUpdateJava \/ UnClean \/ UnRestore \/ UnEnter

SpecUn == UnInit /\ [][UnNext]_vars

\* the extension of a tool's archives: "." + type, ".zip" for the java
\* folders update_java_dirs adds
ArchiveExt(tool) == IF tool.type = << >> THEN DotZip ELSE <<".">> \o tool.type

\* C9 (as claimed): once uninstall has cleaned the tool directories, each of
\* them holds nothing but top-level files whose name ends with the extension
\* of that tool's archives.
C9_OnlyArchivesLeft ==
    (unPc = "input")
        => \A i \in DOMAIN uTools : \A k \in Kids(ws, uTools[i].dir) :
              ~ws[k].dir /\ EndsWith(Lower(Basename(k)), ArchiveExt(uTools[i]))

\* the lexicographically latest of a set of backups
LatestOf(B) == CHOOSE b \in B : \A o \in B \ {b} : LexLess(Basename(o), Basename(b))

\* C10: when restore_backup has run with N >= 1 backups present, the live
\* configuration has the content of the lexicographically latest backup,
\* which is the content the live configuration had when that backup was
\* made; that backup is gone and the other N-1 backups are as they were.
C10_RestoreLatest ==
    (unPc = "input" /\ Backups(wsPrev) # {})
        => LET b == LatestOf(Backups(wsPrev))
           IN  /\ ConfigPath \in DOMAIN ws
               /\ ws[ConfigPath] = wsPrev[b]
               /\ ws[ConfigPath] = uBacked[Basename(b)]
               /\ b \notin DOMAIN ws
               /\ Backups(ws) = Backups(wsPrev) \ {b}
               /\ \A o \in Backups(ws) : ws[o] = wsPrev[o]
               /\ Cardinality(Backups(ws)) = Cardinality(Backups(wsPrev)) - 1

\* a restore that had two backups to choose from, made in seconds 9 and 10,
\* and changed the live configuration
C10_Witness ==
    /\ unPc = "input"
    /\ Append(WsDir, BackupName(9)) \in Backups(wsPrev)
    /\ Append(WsDir, BackupName(10)) \in Backups(wsPrev)
    /\ ws[ConfigPath] # wsPrev[ConfigPath]
    /\ Cardinality(Backups(ws)) = 1

\* restore_backup has just run and found exactly two backups
TwoBackupsRestored == unPc = "input" /\ Cardinality(Backups(wsPrev)) = 2

\* C11 (as claimed): uninstall with two backups present restores the later
\* one over the live configuration and deletes both backups, leaving one
\* live configuration and no backup.
C11_BothBackupsDeleted ==
    TwoBackupsRestored
        => /\ ws[ConfigPath] = wsPrev[LatestOf(Backups(wsPrev))]
           /\ Backups(ws) = {}

\* C11 (amended): uninstall with two backups present restores the later one
\* over the live configuration and deletes that backup only, leaving one
\* live configuration and the earlier backup, unchanged.
C11_OnlyRestoredBackupDeleted ==
    TwoBackupsRestored
        => LET b == LatestOf(Backups(wsPrev))
           IN  /\ ConfigPath \in DOMAIN ws
               /\ ws[ConfigPath] = wsPrev[b]
               /\ Cardinality(Backups(ws)) = 1
               /\ \A o \in Backups(ws) :
                     /\ o # b
                     /\ LexLess(Basename(o), Basename(b))
                     /\ ws[o] = wsPrev[o]

\* two backups made in different seconds, and the earlier one survives
C11_Witness ==
    /\ TwoBackupsRestored
    /\ \E o \in Backups(ws) : o \in Backups(wsPrev) /\ ws[ConfigPath] # ws[o]

\* every run so far but the uninstall that has just restored was a run of
\* workspace-configure that rewrote the live configuration
ConfiguredThenUninstalled == unPc = "input" /\ uVer >= 1 /\ uRuns = uVer + 1

\* C24 (as claimed): after one or more runs of workspace-configure followed
\* by one uninstall, the live configuration is the pristine template again,
\* the content it had before the first run of workspace-configure.
C24_PristineAfterUninstall ==
    ConfiguredThenUninstalled
        => (ConfigPath \in DOMAIN ws /\ ws[ConfigPath] = Content(0))

\* C25 (as claimed): when uninstall starts with at least one backup in the
\* workspace configuration directory, it ends with the live configuration
\* holding the content of the lexicographically latest of them, whatever the
\* tools manifest declares: the cleaning loop deletes no backup.
C25_BackupsSurviveCleanup ==
    (unPc = "input" /\ Backups(uStart) # {})
        => /\ Backups(wsPrev) = Backups(uStart)
           /\ ConfigPath \in DOMAIN ws
           /\ ws[ConfigPath] = uStart[LatestOf(Backups(uStart))]


(***************************************************************************)
(* replace_in_file and the templating of the settings files.               *)
(*                                                                         *)
(* A file is the sequence of its bytes and a string the sequence of its    *)
(* characters, one character per element; the files of the model are       *)
(* ASCII, so that UTF-8 decodes a byte to the character of the same code.  *)
(* The data files themselves (settings.json, zowe.config.json) are not     *)
(* part of the sources: the model draws settings files from short runs of  *)
(* tokens, letters and line endings, and the connection configuration is   *)
(* one flat object that holds every placeholder workspace.py replaces.     *)
(***************************************************************************)
\* segments a settings file of the model is made of, at most
MaxSegs == 3
\* menu choices the user makes before choosing 7, at most
MaxTurns == 2
\* characters the user types at a prompt, at most
MaxTyped == 1

BS == "\\"
LF == "\n"
CR == "\r"
DQ == "\""

\* the placeholders of settings.json (install.py) and of zowe.config.json
\* (workspace.py)
TokWorkspace == <<"_", "W", "O", "R", "K", "S", "P", "A", "C", "E", "_">>
TokWorkspaceUri ==
    <<"_", "W", "O", "R", "K", "S", "P", "A", "C", "E", "U", "R", "I", "_">>
TokJavaHome == <<"_", "J", "A", "V", "A", "H", "O", "M", "E", "_">>
TokVenvHome ==
    <<"_", "P", "Y", "T", "H", "O", "N", "_", "V", "E", "N", "V", "_", "H",
      "O", "M", "E", "_">>
TokVenvExec ==
    <<"_", "P", "Y", "T", "H", "O", "N", "_", "V", "E", "N", "V", "_", "E",
      "X", "E", "C", "_">>
TokHost == <<"_", "H", "O", "S", "T", "_">>
TokUser == <<"_", "U", "S", "E", "R", "_">>
TokPassword == <<"_", "P", "A", "S", "S", "W", "O", "R", "D", "_">>
TokZosmfPort == <<"_", "Z", "O", "S", "M", "F", "_", "P", "O", "R", "T", "_">>
TokTsoCodepage ==
    <<"_", "T", "S", "O", "_", "C", "O", "D", "E", "P", "A", "G", "E", "_">>
TokSshPort == <<"_", "S", "S", "H", "_", "P", "O", "R", "T", "_">>
TokFtpPort == <<"_", "F", "T", "P", "_", "P", "O", "R", "T", "_">>
TokRsePort == <<"_", "R", "S", "E", "_", "P", "O", "R", "T", "_">>
TokRseEncoding ==
    <<"_", "R", "S", "E", "_", "E", "N", "C", "O", "D", "I", "N", "G", "_">>
TokDebugPort == <<"_", "D", "E", "B", "U", "G", "_", "P", "O", "R", "T", "_">>

\* the least element of a non-empty set of indices
Least(S) == CHOOSE i \in S : \A j \in S : i <= j

\* the greatest element of a non-empty set of indices
Greatest(S) == CHOOSE i \in S : \A j \in S : j <= i

\* ---- text-mode reading and writing --------------------------------------
\* open(file_path, "r", encoding="utf-8").read(): universal newlines, every
\* CR LF and every lone CR is read as LF
RECURSIVE ReadText(_)
ReadText(b) ==
    LET crs == {i \in 1..Len(b) : b[i] = CR}
    IN  IF crs = {} THEN b
        ELSE LET i == Least(crs)
                 next == IF i < Len(b) /\ b[i + 1] = LF THEN i + 2 ELSE i + 1
             IN  SubSeq(b, 1, i - 1) \o <<LF>> \o ReadText(SubSeq(b, next, Len(b)))

\* open(file_path, "w", encoding="utf-8").write(text): every LF is written as
\* os.linesep
RECURSIVE WriteText(_, _)
WriteText(text, linesep) ==
    LET lfs == {i \in 1..Len(text) : text[i] = LF}
    IN  IF lfs = {} THEN text
        ELSE LET i == Least(lfs)
             IN  SubSeq(text, 1, i - 1) \o linesep
                 \o WriteText(SubSeq(text, i + 1, Len(text)), linesep)

\* ---- re.sub ---------------------------------------------------------------
\* the string a pattern of the callers matches: a backslash makes the
\* character after it literal, every other character of these patterns is
\* literal already
RECURSIVE ReLiteral(_)
ReLiteral(pat) ==
    IF pat = << >> THEN << >>
    ELSE IF Head(pat) = BS /\ Len(pat) >= 2
           THEN <<pat[2]>> \o ReLiteral(SubSeq(pat, 3, Len(pat)))
    ELSE <<Head(pat)>> \o ReLiteral(Tail(pat))

\* the replacement template is well formed: every backslash is followed by a
\* backslash (the other escapes do not occur in the model)
RECURSIVE TemplateOk(_)
TemplateOk(repl) ==
    IF repl = << >> THEN TRUE
    ELSE IF Head(repl) = BS
           THEN Len(repl) >= 2 /\ repl[2] = BS
                /\ TemplateOk(SubSeq(repl, 3, Len(repl)))
    ELSE TemplateOk(Tail(repl))

\* the text a well-formed replacement template stands for: two backslashes
\* stand for one
RECURSIVE ExpandTemplate(_)
ExpandTemplate(repl) ==
    IF repl = << >> THEN << >>
    ELSE IF Head(repl) = BS
           THEN <<BS>> \o ExpandTemplate(SubSeq(repl, 3, Len(repl)))
    ELSE <<Head(repl)>> \o ExpandTemplate(Tail(repl))

StartsWith(s, lit) == Len(lit) <= Len(s) /\ SubSeq(s, 1, Len(lit)) = lit

\* the places of s where lit starts
Starts(lit, s) ==
    {i \in 1..(Len(s) - Len(lit) + 1) : SubSeq(s, i, i + Len(lit) - 1) = lit}

\* str.replace(lit, by): the leftmost occurrences of lit that do not overlap
RECURSIVE SubLiteral(_, _, _)
SubLiteral(lit, by, s) ==
    LET at == Starts(lit, s)
    IN  IF at = {} THEN s
        ELSE LET i == Least(at)
             IN  SubSeq(s, 1, i - 1) \o by
                 \o SubLiteral(lit, by, SubSeq(s, i + Len(lit), Len(s)))

\* re.sub(pattern, replacement, content)
ReSub(pat, repl, content) == SubLiteral(ReLiteral(pat), ExpandTemplate(repl), content)

\* the number of places of s where lit starts
Occurrences(lit, s) == Cardinality(Starts(lit, s))

\* the bytes replace_in_file leaves in a file that held b
ReplaceInFileBytes(b, pat, repl, linesep) ==
    WriteText(ReSub(pat, repl, ReadText(b)), linesep)

\* ---- paths and URIs ---------------------------------------------------------
\* str.replace("\\", "\\\\")
RECURSIVE DoubleBackslashes(_)
DoubleBackslashes(path) ==
    IF path = << >> THEN << >>
    ELSE (IF Head(path) = BS THEN <<BS, BS>> ELSE <<Head(path)>>)
         \o DoubleBackslashes(Tail(path))

\* escape_backslashes(path, for_regex)
EscapeBackslashes(path, forRegex) ==
    IF forRegex THEN DoubleBackslashes(DoubleBackslashes(path))
    ELSE DoubleBackslashes(path)

\* urllib.parse.quote of one character, "/" being safe
QuoteChar(c) ==
    CASE c = ":" -> <<"%", "3", "A">>
      [] c = "%" -> <<"%", "2", "5">>
      [] c = " " -> <<"%", "2", "0">>
      [] c = BS  -> <<"%", "5", "C">>
      [] OTHER   -> <<c>>

\* urllib.parse.quote(s)
RECURSIVE Quote(_)
Quote(s) == IF s = << >> THEN << >> ELSE QuoteChar(Head(s)) \o Quote(Tail(s))

\* PureWindowsPath.as_posix()
AsPosix(path) == [i \in 1..Len(path) |-> IF path[i] = BS THEN "/" ELSE path[i]]

\* Path(workspace).as_uri() of a path with a drive letter: the drive is kept
\* as it is and the rest is quoted
AsUri(path) ==
    <<"f", "i", "l", "e", ":", "/", "/", "/">> \o SubSeq(path, 1, 2)
    \o Quote(SubSeq(AsPosix(path), 3, Len(path)))

\* os.path.join(path, name) and compose_folder_path on Windows
Join(path, name) == path \o <<BS>> \o name

\* the workspace directories of the model
Workspaces ==
    { <<"C", ":", BS, "w">>,
      <<"C", ":", BS, "w", " ", "s">>,
      <<"C", ":", BS, "w", BS, "s">> }

\* tools[...]["dir"] of the java and python tools
JavaDir == <<"j">>
PythonDir == <<"p">>
VenvName == <<"v", "e", "n", "v">>
ScriptsName == <<"S", "c", "r", "i", "p", "t", "s">>
PythonExe == <<"p", "y", "t", "h", "o", "n", ".", "e", "x", "e">>

\* the replace_in_file calls of phase5_path_migration on settings.json that
\* take their replacement from the workspace path, in the order of the code
Phase5Subs(w) ==
    << [pat |-> TokWorkspace,    repl |-> EscapeBackslashes(w, TRUE)],
       [pat |-> TokWorkspaceUri, repl |-> Quote(AsUri(w))],
       [pat |-> TokJavaHome,     repl |-> EscapeBackslashes(Join(w, JavaDir), TRUE)],
       [pat |-> TokVenvHome,
        repl |-> EscapeBackslashes(Join(Join(w, PythonDir), VenvName), TRUE)],
       [pat |-> TokVenvExec,
        repl |-> EscapeBackslashes(
                    Join(Join(Join(Join(w, PythonDir), VenvName), ScriptsName),
                         PythonExe), TRUE)] >>

\* ---- workspace.py -----------------------------------------------------------
\* the keys of properties, and their defaults as an f-string renders them
PropKeys == {"zosmf", "tso", "ssh", "ftp", "rse", "encoding", "debug"}
PortKeys == {"zosmf", "ssh", "ftp", "rse", "debug"}
DefaultProps ==
    [k \in PropKeys |->
        CASE k = "zosmf"    -> <<"4", "4", "3">>
          [] k = "tso"      -> <<"1", "0", "4", "7">>
          [] k = "ssh"      -> <<"2", "2">>
          [] k = "ftp"      -> <<"2", "1">>
          [] k = "rse"      -> <<"6", "8", "0", "0">>
          [] k = "encoding" -> <<"I", "B", "M", "-", "9", "3", "7">>
          [] k = "debug"    -> <<"8", "1", "4", "3">>]

\* what the user can type at a prompt, stripped
TypedChars == {"8", "a"}
RECURSIVE StringsUpTo(_, _)
StringsUpTo(n, chars) ==
    IF n = 0 THEN {<< >>}
    ELSE LET shorter == StringsUpTo(n - 1, chars)
         IN  shorter \cup {<<c>> \o t : c \in chars, t \in {u \in shorter : Len(u) = n - 1}}
\* the user may also type the text of a placeholder
Typed == StringsUpTo(MaxTyped, TypedChars) \cup {TokRseEncoding}

\* prompt_with_default(prompt_text, default_value), given the stripped input
PromptWithDefault(inp, default) == IF inp # << >> THEN inp ELSE default

\* the base parameters typed before the menu
HostTyped == <<"h">>
UserTyped == <<"u">>
PasswordTyped == <<"p">>

\* a pattern that takes the quotes around a placeholder with it
Quoted(tok) == <<BS, DQ>> \o tok \o <<BS, DQ>>

\* the replace_in_file calls of main on zowe.config.json, in the order of the
\* code
ConfigSubs(props) ==
    << [pat |-> TokHost,              repl |-> HostTyped],
       [pat |-> TokUser,              repl |-> UserTyped],
       [pat |-> TokPassword,          repl |-> PasswordTyped],
       [pat |-> Quoted(TokZosmfPort), repl |-> props["zosmf"]],
       [pat |-> TokTsoCodepage,       repl |-> props["tso"]],
       [pat |-> Quoted(TokSshPort),   repl |-> props["ssh"]],
       [pat |-> Quoted(TokFtpPort),   repl |-> props["ftp"]],
       [pat |-> Quoted(TokRsePort),   repl |-> props["rse"]],
       [pat |-> TokRseEncoding,       repl |-> props["encoding"]],
       [pat |-> Quoted(TokDebugPort), repl |-> props["debug"]] >>

\* "key": "placeholder"
Member(key, tok) == <<DQ, key, DQ, ":", DQ>> \o tok \o <<DQ>>

\* zowe.config.json before it is configured: every value is a quoted
\* placeholder
ConfigTemplate ==
    <<"{">> \o Member("h", TokHost) \o <<",">> \o Member("u", TokUser) \o <<",">>
    \o Member("w", TokPassword) \o <<",">> \o Member("z", TokZosmfPort) \o <<",">>
    \o Member("t", TokTsoCodepage) \o <<",">> \o Member("s", TokSshPort) \o <<",">>
    \o Member("f", TokFtpPort) \o <<",">> \o Member("r", TokRsePort) \o <<",">>
    \o Member("e", TokRseEncoding) \o <<",">> \o Member("d", TokDebugPort) \o <<"}">>

LineEndings == {<<LF>>, <<CR, LF>>}

ConfigFiles == {ConfigTemplate \o e : e \in LineEndings \cup {<< >>}}

\* the settings files of the model
Segments == {TokWorkspace, TokWorkspaceUri, <<"a">>, <<LF>>, <<CR, LF>>, <<DQ>>}
RECURSIVE FilesUpTo(_)
FilesUpTo(n) ==
    IF n = 0 THEN {<< >>}
    ELSE LET shorter == FilesUpTo(n - 1)
         IN  shorter \cup {f \o g : f \in shorter, g \in Segments}
SettingsFiles == FilesUpTo(MaxSegs)

\* ---- vscode_cmd_insertion -------------------------------------------------
Setlocal == <<"s", "e", "t", "l", "o", "c", "a", "l">>
SetLocalMixed == <<"S", "e", "t", "L", "o", "c", "a", "l">>

\* str.strip(): the text without its leading and trailing whitespace
Whitespace == {" ", "\t", LF, CR}
Strip(s) ==
    LET ink == {i \in 1..Len(s) : s[i] \notin Whitespace}
    IN  IF ink = {} THEN << >> ELSE SubSeq(s, Least(ink), Greatest(ink))

\* the lines of a text, each with the terminator that ends it; the
\* terminators are the sequences in terms
RECURSIVE LinesOf(_, _)
LinesOf(s, terms) ==
    LET ends == {i \in 1..Len(s) : \E t \in terms : StartsWith(SubSeq(s, i, Len(s)), t)}
    IN  IF ends = {} THEN (IF s = << >> THEN << >> ELSE <<s>>)
        ELSE LET i == Least(ends)
                 n == IF <<CR, LF>> \in terms /\ StartsWith(SubSeq(s, i, Len(s)), <<CR, LF>>)
                        THEN 2 ELSE 1
             IN  <<SubSeq(s, 1, i + n - 1)>> \o LinesOf(SubSeq(s, i + n, Len(s)), terms)

\* f.readlines() of a file opened in text mode
ReadLines(b) == LinesOf(ReadText(b), {<<LF>>})

\* line.strip().lower() == "setlocal"
IsSetlocal(line) == Lower(Strip(line)) = Setlocal

\* the loop of vscode_cmd_insertion: every line is kept, and the insertions
\* follow the first line that is setlocal
InsertAfterFirst(lines, insertions) ==
    LET hits == {i \in 1..Len(lines) : IsSetlocal(lines[i])}
    IN  IF hits = {} THEN lines
        ELSE SubSeq(lines, 1, Least(hits)) \o insertions
             \o SubSeq(lines, Least(hits) + 1, Len(lines))

RECURSIVE Concat(_)
Concat(seqs) == IF seqs = << >> THEN << >> ELSE Head(seqs) \o Concat(Tail(seqs))

\* vscode_cmd_insertion(file_path, insertions): the bytes it leaves in a file
\* that held b
VscodeCmdInsertion(b, insertions, linesep) ==
    WriteText(Concat(InsertAfterFirst(ReadLines(b), insertions)), linesep)

\* java_home_path
JavaHomePath(w) == Join(w, JavaDir)

\* the insertions of phase7_create_shortcut, with no tool home path declared
\* and the arguments of the powershell command left out
Insertions(javaHome) ==
    << <<"p", "o", "w", "e", "r", "s", "h", "e", "l", "l", LF>>,
       <<"s", "e", "t", " ", DQ, "P", "A", "T", "H", "=", ";",
         "%", "P", "A", "T", "H", "%", DQ, LF>>,
       <<"s", "e", "t", " ", DQ, "J", "A", "V", "A", "_", "H", "O", "M", "E", "=">> \o javaHome \o <<DQ, LF>> >>

\* the launch scripts of the model
CmdSegments == {Setlocal, SetLocalMixed, <<" ">>, <<"a">>, <<LF>>, <<CR, LF>>}
RECURSIVE CmdFilesUpTo(_)
CmdFilesUpTo(n) ==
    IF n = 0 THEN {<< >>}
    ELSE LET shorter == CmdFilesUpTo(n - 1)
         IN  shorter \cup {f \o g : f \in shorter, g \in CmdSegments}
CmdFiles == CmdFilesUpTo(MaxSegs)

TplInit ==
    /\ InstallIdle
    /\ SpinnerIdle
    /\ FSIdle
    /\ UnIdle
    /\ GlIdle
    /\ RmIdle
    /\ ExtIdle
    /\ JavaIdle
    /\ tLinesep \in LineEndings
    /\ tPc \in {"p5", "menu", "p7"}
    /\ tBytes \in (CASE tPc = "p5" -> SettingsFiles
                     [] tPc = "menu" -> ConfigFiles
                     [] tPc = "p7" -> CmdFiles)
    /\ tWorkspace \in (IF tPc = "menu" THEN {<< >>} ELSE Workspaces)
    /\ tBytes0 = tBytes
    /\ tPrev = tBytes
    /\ tPort = DefaultProps
    /\ tPattern = << >>
    /\ tTurns = 0
    /\ tIdx = 1

\* replace_in_file(file_path, pattern, replacement): when re.sub rejects the
\* replacement the exception leaves the script before the file is written
ReplaceInFile(sub, then) ==
    /\ tPrev' = tBytes
    /\ tPattern' = sub.pat
    /\ IF TemplateOk(sub.repl)
         THEN /\ tBytes' = ReplaceInFileBytes(tBytes, sub.pat, sub.repl, tLinesep)
              /\ tPc' = then
              /\ tIdx' = tIdx + 1
         ELSE /\ tPc' = "raised"
              /\ UNCHANGED <<tBytes, tIdx>>

\* phase5_path_migration: the next replace_in_file on settings.json
Phase5Replace ==
    /\ tPc = "p5"
    /\ LET subs == Phase5Subs(tWorkspace)
       IN  ReplaceInFile(subs[tIdx], IF tIdx = Len(subs) THEN "done" ELSE "p5")
    /\ UNCHANGED <<outsideTpl, tBytes0, tWorkspace, tLinesep, tPort, tTurns>>

\* main of workspace.py: one turn of the menu, choices 1 to 6; choice 5 asks
\* for the port and then for the encoding
MenuChoice ==
    /\ tPc = "menu"
    /\ tTurns < MaxTurns
    /\ \E key \in PortKeys \cup {"tso"}, inp \in Typed, inp2 \in Typed :
          /\ key # "rse" => inp2 = << >>
          /\ tPort' =
                [k \in PropKeys |->
                    IF k = key THEN PromptWithDefault(inp, tPort[k])
                    ELSE IF key = "rse" /\ k = "encoding"
                           THEN PromptWithDefault(inp2, tPort[k])
                    ELSE tPort[k]]
    /\ tTurns' = tTurns + 1
    /\ UNCHANGED <<outsideTpl, tBytes, tBytes0, tPrev, tPc, tWorkspace, tLinesep,
                   tPattern, tIdx>>

\* choice 7: the menu ends and the configuration is backed up (the backup is
\* modelled by WorkspaceConfigure)
MenuEnd ==
    /\ tPc = "menu"
    /\ tPc' = "cfg"
    /\ UNCHANGED <<outsideTpl, tBytes, tBytes0, tPrev, tWorkspace, tLinesep, tPort,
                   tPattern, tTurns, tIdx>>

\* main of workspace.py: the next replace_in_file on zowe.config.json
ConfigReplace ==
    /\ tPc = "cfg"
    /\ LET subs == ConfigSubs(tPort)
       IN  ReplaceInFile(subs[tIdx], IF tIdx = Len(subs) THEN "done" ELSE "cfg")
    /\ UNCHANGED <<outsideTpl, tBytes0, tWorkspace, tLinesep, tPort, tTurns>>

\* phase7_create_shortcut: vscode_cmd_insertion(vscmd, insertions)
Phase7CmdInsertion ==
    /\ tPc = "p7"
    /\ tPrev' = tBytes
    /\ tBytes' = VscodeCmdInsertion(tBytes, Insertions(JavaHomePath(tWorkspace)), tLinesep)
    /\ tPc' = "inserted"
    /\ UNCHANGED <<outsideTpl, tBytes0, tWorkspace, tLinesep, tPort, tPattern, tTurns,
                   tIdx>>

TplNext ==
    \/ Phase7CmdInsertion
    \/ Phase5Replace
    \/ MenuChoice
    \/ MenuEnd
    \/ ConfigReplace

SpecTpl == TplInit /\ [][TplNext]_vars

\* ---- the settings file after the workspace substitutions ------------------
\* the bytes of the settings file with every workspace token replaced and
\* nothing else touched
C15_Expected ==
    SubLiteral(TokWorkspaceUri, Quote(AsUri(tWorkspace)),
        SubLiteral(TokWorkspace, DoubleBackslashes(tWorkspace), tBytes0))

\* C15: templating a settings file replaces every _WORKSPACE_ token with the
\* workspace path with each backslash doubled and every _WORKSPACEURI_ token
\* with the percent-encoded file URI of the workspace, the first substitution
\* leaves the _WORKSPACEURI_ tokens alone, and all other content of the file
\* is unchanged.
C15_SettingsTemplated ==
    /\ (tPc = "p5" /\ tIdx = 2) =>
          Occurrences(TokWorkspaceUri, tBytes) = Occurrences(TokWorkspaceUri, tBytes0)
    /\ (tPc = "p5" /\ tIdx = 3) => tBytes = C15_Expected

\* ---- the launch script after vscode_cmd_insertion --------------------------
\* the lines of the bytes of a file, a line ending with LF, CR LF or CR
ByteLines(b) == LinesOf(b, {<<LF>>, <<CR, LF>>, <<CR>>})

\* the insertions as the lines they are on the platform
C22_Block ==
    LET ins == Insertions(JavaHomePath(tWorkspace))
    IN  [i \in 1..Len(ins) |-> WriteText(ins[i], tLinesep)]

\* C22: vscode_cmd_insertion writes back the original lines of the launch
\* script in their order, with the insertion block right after the first
\* line that is setlocal (whitespace and case ignored) and nowhere else, once
\* even with several setlocal lines, and leaves the file unchanged when no
\* line is setlocal.
C22_BlockAfterFirstSetlocal ==
    tPc = "inserted" =>
        /\ ByteLines(tBytes) = InsertAfterFirst(ByteLines(tBytes0), C22_Block)
        /\ (\A i \in 1..Len(ByteLines(tBytes0)) : ~IsSetlocal(ByteLines(tBytes0)[i]))
              => tBytes = tBytes0

\* ---- JSON -----------------------------------------------------------------
\* the grammar of a flat JSON object: string keys, and values that are
\* strings, integers or literals
C16_JsonWs == {" ", "\t", LF, CR}
C16_JsonDigits == {"0", "1", "2", "3", "4", "5", "6", "7", "8", "9"}

RECURSIVE C16_JsonSkipWs(_, _)
C16_JsonSkipWs(s, i) ==
    IF i <= Len(s) /\ s[i] \in C16_JsonWs THEN C16_JsonSkipWs(s, i + 1) ELSE i

\* the index after the string whose body starts at i, 0 when it does not end
RECURSIVE C16_JsonStringBody(_, _)
C16_JsonStringBody(s, i) ==
    LET marks == {j \in i..Len(s) : s[j] \in {DQ, BS, LF, CR}}
    IN  IF marks = {} THEN 0
        ELSE LET j == Least(marks)
             IN  IF s[j] = DQ THEN j + 1
                 ELSE IF s[j] = BS /\ j < Len(s) THEN C16_JsonStringBody(s, j + 2)
                 ELSE 0

C16_JsonStringEnd(s, i) ==
    IF i <= Len(s) /\ s[i] = DQ THEN C16_JsonStringBody(s, i + 1) ELSE 0

RECURSIVE C16_JsonDigitsEnd(_, _)
C16_JsonDigitsEnd(s, i) ==
    IF i <= Len(s) /\ s[i] \in C16_JsonDigits THEN C16_JsonDigitsEnd(s, i + 1) ELSE i

\* an integer: an optional minus, then 0 or a run of digits that does not
\* start with 0
C16_JsonNumberEnd(s, i) ==
    LET j == IF i <= Len(s) /\ s[i] = "-" THEN i + 1 ELSE i
    IN  IF j > Len(s) \/ s[j] \notin C16_JsonDigits THEN 0
        ELSE IF s[j] = "0" THEN j + 1
        ELSE C16_JsonDigitsEnd(s, j)

C16_JsonLiteralEnd(s, i) ==
    LET rest == SubSeq(s, i, Len(s))
    IN  IF StartsWith(rest, <<"t", "r", "u", "e">>) THEN i + 4
        ELSE IF StartsWith(rest, <<"n", "u", "l", "l">>) THEN i + 4
        ELSE IF StartsWith(rest, <<"f", "a", "l", "s", "e">>) THEN i + 5
        ELSE 0

C16_JsonValueEnd(s, i) ==
    IF C16_JsonStringEnd(s, i) # 0 THEN C16_JsonStringEnd(s, i)
    ELSE IF C16_JsonNumberEnd(s, i) # 0 THEN C16_JsonNumberEnd(s, i)
    ELSE C16_JsonLiteralEnd(s, i)

\* the index after the closing brace of the object whose next member starts
\* at i, 0 when the members are malformed
RECURSIVE C16_JsonMembersEnd(_, _)
C16_JsonMembersEnd(s, i) ==
    LET k == C16_JsonStringEnd(s, C16_JsonSkipWs(s, i))
    IN  IF k = 0 THEN 0
        ELSE LET c == C16_JsonSkipWs(s, k)
             IN  IF c > Len(s) \/ s[c] # ":" THEN 0
                 ELSE LET v == C16_JsonValueEnd(s, C16_JsonSkipWs(s, c + 1))
                      IN  IF v = 0 THEN 0
                          ELSE LET n == C16_JsonSkipWs(s, v)
                               IN  IF n > Len(s) THEN 0
                                   ELSE IF s[n] = "," THEN C16_JsonMembersEnd(s, n + 1)
                                   ELSE IF s[n] = "}" THEN n + 1
                                   ELSE 0

C16_ValidJson(s) ==
    LET i == C16_JsonSkipWs(s, 1)
    IN  /\ i <= Len(s)
        /\ s[i] = "{"
        /\ LET e == C16_JsonMembersEnd(s, i + 1)
           IN  e # 0 /\ C16_JsonSkipWs(s, e) = Len(s) + 1

\* C16: the port placeholders are replaced together with their quotes, and
\* for every value the menu can store for a port, the defaults and whatever
\* the user typed, the connection configuration is valid JSON after all the
\* substitutions.
C16_ConfigStaysValidJson ==
    (tPc = "done" /\ tWorkspace = << >>) =>
        /\ \A k \in {TokZosmfPort, TokSshPort, TokFtpPort, TokRsePort, TokDebugPort} :
              Occurrences(k, tBytes) = 0
        /\ C16_ValidJson(tBytes)

\* every placeholder of s replaced at once: the leftmost pattern of subs that
\* occurs in s is replaced, and the text after it is treated the same way;
\* the replacements are not looked at again
RECURSIVE C27_Simultaneous(_, _)
C27_Simultaneous(subs, s) ==
    LET at(k) == Starts(ReLiteral(subs[k].pat), s)
        hits == UNION {at(k) : k \in DOMAIN subs}
    IN  IF hits = {} THEN s
        ELSE LET i == Least(hits)
                 k == Least({j \in DOMAIN subs : i \in at(j)})
             IN  SubSeq(s, 1, i - 1) \o ExpandTemplate(subs[k].repl)
                 \o C27_Simultaneous(subs, SubSeq(s, i + Len(ReLiteral(subs[k].pat)), Len(s)))

\* C27 (as claimed): the connection configuration workspace-configure
\* produces is the original file with all placeholders substituted at once; a
\* value the user entered that contains a placeholder a later substitution
\* handles is written as entered.
C27_SubstitutedAtOnce ==
    (tPc = "done" /\ tWorkspace = << >>)
        => tBytes = C27_Simultaneous(ConfigSubs(tPort), tBytes0)

\* C17: replace_in_file called with a pattern that does not occur in the
\* file leaves the content of the file as it was.
C17_AbsentPatternKeepsFile ==
    [][(tPattern' # << >> /\ tPrev' = tBytes
        /\ Occurrences(ReLiteral(tPattern'), tBytes) = 0)
       => tBytes' = tBytes]_vars

(***************************************************************************)
(* get_latest_file (utils/path_utils.py).                                  *)
(*                                                                         *)
(* The directory is a function from the names of its entries to their      *)
(* modification times; glob lists the entries in the order the directory   *)
(* yields them, which is any order.  An entry that cannot be read (a       *)
(* dangling link, an entry removed between glob and getmtime) is outside   *)
(* the model.                                                              *)
(***************************************************************************)
\* the greatest modification time of the model
MaxMtime == 2

GlDirName == <<"d">>
bZip == <<"b", ".", "z", "i", "p">>
GlNames == {aZip, bZip, DotZip, <<"w">>}
GlPatterns == {<<"*", ".", "z", "i", "p">>, <<"a", "*">>, <<"w">>}

\* the orders in which a directory can list the entries in S
Listings(S) ==
    {o \in [1..Cardinality(S) -> S] : \A i, j \in 1..Cardinality(S) : o[i] = o[j] => i = j}

GlInit ==
    /\ InstallIdle
    /\ SpinnerIdle
    /\ FSIdle
    /\ UnIdle
    /\ TplIdle
    /\ RmIdle
    /\ ExtIdle
    /\ JavaIdle
    /\ \E S \in SUBSET GlNames :
          /\ gDir \in [S -> 1..MaxMtime]
          /\ gOrder \in Listings(S)
    /\ gPattern \in GlPatterns
    /\ gResult = << >>
    /\ gPc = "call"

\* glob.glob on one component: a name that starts with a dot is matched only
\* by a pattern that starts with a dot
GlobMatch(pat, name) ==
    /\ Match(pat, name)
    /\ (HasMagic(pat) /\ Head(name) = ".") => Head(pat) = "."

\* glob.glob(os.path.join(directory, pattern)): the paths of the matching
\* entries, in the order of the listing
Glob(order, pat) ==
    LET hit(n) == GlobMatch(pat, n)
    IN  [i \in 1..Len(SelectSeq(order, hit)) |-> <<GlDirName, SelectSeq(order, hit)[i]>>]

OlderFirst(dir, p, q) == dir[Basename(p)] < dir[Basename(q)]

\* key=lambda f: os.path.getmtime(f), reverse=True
NewerFirst(dir, p, q) == dir[Basename(p)] > dir[Basename(q)]

\* matched_files.sort(key=..., reverse=True): a stable sort, an element goes
\* after the elements that come first by the key and after the earlier ones
\* with its key
StableSort(seq, dir) ==
    LET rank(i) == Cardinality({j \in 1..Len(seq) :
                        \/ NewerFirst(dir, seq[j], seq[i])
                        \/ (~NewerFirst(dir, seq[i], seq[j]) /\ j < i)}) + 1
    IN  [k \in 1..Len(seq) |-> seq[CHOOSE i \in 1..Len(seq) : rank(i) = k]]

\* get_latest_file(directory, pattern)
GetLatestFile(dir, order, pat) ==
    LET matched_files == Glob(order, pat)
    IN  IF matched_files = << >> THEN << >>
        ELSE Basename(StableSort(matched_files, dir)[1])

\* a caller calls get_latest_file
CallGetLatestFile ==
    /\ gPc = "call"
    /\ gResult' = GetLatestFile(gDir, gOrder, gPattern)
    /\ gPc' = "returned"
    /\ UNCHANGED <<outsideGl, gDir, gOrder, gPattern>>

GlNext == CallGetLatestFile

SpecGl == GlInit /\ [][GlNext]_vars

\* the entries of the directory that the pattern matches
GlMatching == {n \in DOMAIN gDir : GlobMatch(gPattern, n)}

\* C18: get_latest_file returns the empty string when the directory is empty
\* or no entry matches the pattern, the basename of the matching entry when
\* there is exactly one, and in general the basename of a matching entry
\* that is not older than any other matching entry.
C18_LatestFile ==
    gPc = "returned" =>
        /\ GlMatching = {} => gResult = << >>
        /\ \A n \in GlMatching : GlMatching = {n} => gResult = n
        /\ GlMatching # {} =>
              /\ gResult \in GlMatching
              /\ \A n \in GlMatching : gDir[n] <= gDir[gResult]

\* the newest of two matching entries is returned although the directory
\* lists the older one first
C18_Witness ==
    /\ gPc = "returned"
    /\ Cardinality(GlMatching) = 2
    /\ gResult \in GlMatching
    /\ gResult # Basename(Glob(gOrder, gPattern)[1])
    /\ \E n \in GlMatching : gDir[n] < gDir[gResult]

(***************************************************************************)
(* safe_rmtree and safe_remove_file (utils/file_utils.py).                 *)
(*                                                                         *)
(* Whether a deletion succeeds is not up to the function: an attempt on a  *)
(* path that exists either removes it or raises PermissionError, OSError   *)
(* or another Exception.  While the function sleeps, another process can   *)
(* remove the path.                                                        *)
(***************************************************************************)
\* the greatest value of retries in the model (the callers pass the default)
MaxRetries == 3
\* the greatest value of delay in the model, in seconds
MaxDelay == 2

RmFailures == {"PermissionError", "OSError", "Exception"}

RmInit ==
    /\ InstallIdle
    /\ SpinnerIdle
    /\ FSIdle
    /\ UnIdle
    /\ TplIdle
    /\ GlIdle
    /\ ExtIdle
    /\ JavaIdle
    /\ rKind \in {"tree", "file"}
    /\ rRetries \in 1..MaxRetries
    /\ rDelay \in (IF rKind = "file" THEN {1} ELSE 1..MaxDelay)
    /\ rAttempt = 0
    /\ rPc = "try"
    /\ rExists \in BOOLEAN
    /\ rLog = << >>
    /\ rWaited = 0
    /\ rResult = "none"

\* what a return statement of the function hands to the caller
RmReturns(kind, ok) ==
    IF kind = "tree" THEN "None" ELSE IF ok THEN "True" ELSE "False"

SleepsAlways(attempt, retries) == TRUE

\* if attempt < retries - 1
SleepsBefore(attempt, retries) == attempt < retries - 1

\* the body of the try: the path is absent or the deletion succeeds, and the
\* function returns
RmAttemptOk ==
    /\ rPc = "try"
    /\ rLog' = Append(rLog, "try")
    /\ rExists' = FALSE
    /\ rResult' = RmReturns(rKind, TRUE)
    /\ rPc' = "returned"
    /\ UNCHANGED <<outsideRm, rKind, rRetries, rDelay, rAttempt, rWaited>>

\* the body of the try: the deletion raises and a handler logs the failure
RmAttemptFails ==
    /\ rPc = "try"
    /\ rExists
    /\ \E e \in RmFailures : rLog' = rLog \o <<"try", e>>
    /\ rPc' = IF SleepsBefore(rAttempt, rRetries) THEN "sleep" ELSE "next"
    /\ UNCHANGED <<outsideRm, rKind, rRetries, rDelay, rAttempt, rExists, rWaited,
                   rResult>>

\* time.sleep(delay) in a handler
RmSleep ==
    /\ rPc = "sleep"
    /\ rLog' = Append(rLog, "sleep")
    /\ rWaited' = rWaited + rDelay
    /\ rPc' = "next"
    /\ UNCHANGED <<outsideRm, rKind, rRetries, rDelay, rAttempt, rExists, rResult>>

\* another process removes the path while the function sleeps
RmOtherRemoves ==
    /\ rPc = "sleep"
    /\ rExists
    /\ rExists' = FALSE
    /\ UNCHANGED <<outsideRm, rKind, rRetries, rDelay, rAttempt, rPc, rLog, rWaited,
                   rResult>>

\* for attempt in range(retries): the next attempt, or the statements after
\* the loop
RmNextAttempt ==
    /\ rPc = "next"
    /\ rAttempt' = rAttempt + 1
    /\ IF rAttempt + 1 < rRetries
         THEN /\ rPc' = "try"
              /\ UNCHANGED rResult
         ELSE /\ rPc' = "returned"
              /\ rResult' = RmReturns(rKind, FALSE)
    /\ UNCHANGED <<outsideRm, rKind, rRetries, rDelay, rExists, rLog, rWaited>>

RmNext ==
    \/ RmAttemptOk
    \/ RmAttemptFails
    \/ RmSleep
    \/ RmOtherRemoves
    \/ RmNextAttempt

\* nothing stops the function between two of its statements
SpecRm == RmInit /\ [][RmNext]_vars /\ WF_vars(RmNext)

\* the number of log entries among evs, in the first n entries of the log
RmCount(evs, n) == Cardinality({i \in 1..n : rLog[i] \in evs})
RmTries == RmCount({"try"}, Len(rLog))
RmFails == RmCount(RmFailures, Len(rLog))
RmSleeps == RmCount({"sleep"}, Len(rLog))

\* the attempts are bounded, nothing follows a success, a sleep directly
\* follows a failed attempt that is not the last one, and the call returns
\* without raising, True or False telling whether the file is gone
C21_RetryInv ==
    /\ RmTries <= rRetries
    /\ \A i \in 1..Len(rLog) :
          /\ rLog[i] \in RmFailures => rLog[i - 1] = "try"
          /\ rLog[i] = "sleep" =>
                (rLog[i - 1] \in RmFailures /\ RmCount({"try"}, i) < rRetries)
          /\ (rLog[i] = "try" /\ i > 1) => rLog[i - 1] \in RmFailures \cup {"sleep"}
    /\ rWaited = RmSleeps * rDelay
    /\ rPc \in {"try", "sleep", "next", "returned"}
    /\ rPc = "returned" =>
          /\ rLog[Len(rLog)] # "sleep"
          /\ RmSleeps = RmFails - (IF RmFails = rRetries THEN 1 ELSE 0)
          /\ rKind = "tree" => rResult = "None"
          /\ rKind = "file" =>
                /\ rResult = "True" <=> (rLog[Len(rLog)] = "try" /\ ~rExists)
                /\ rResult = "False" <=> RmFails = rRetries
                /\ rResult \in {"True", "False"}

\* C21: safe_rmtree and safe_remove_file make at most retries attempts, stop
\* at the first attempt that succeeds or finds the path absent, wait only
\* between a failed attempt and the next one, always terminate, and return
\* without raising after the last failed attempt; safe_remove_file returns
\* True exactly when the file was absent or removed and False after retries
\* failed attempts.
C21_BoundedRetries == [](C21_RetryInv) /\ <>(rPc = "returned")

\* every attempt failed: the call slept between the attempts only and gave up
C21_Witness ==
    /\ rPc = "returned"
    /\ rKind = "file"
    /\ rRetries = 3
    /\ RmFails = 3
    /\ RmSleeps = 2
    /\ rResult = "False"

(***************************************************************************)
(* Phase 6 of install.py on the extensions directory: the loop over the    *)
(* publishers of extensions.yml, each with the files its glob matches.     *)
(***************************************************************************)
\* publishers in extensions.yml, at most
MaxPublishers == 2

pA == <<"a">>
pAB == <<"a", "b">>
pB == <<"b">>
Publishers == {pA, pAB, pB}

DotVsix == <<".", "v", "s", "i", "x">>

\* download.py: file_name = f"{publisher}.{ext_name}-{version}.vsix"
VsixName(publisher) == publisher \o <<".", "x", "-", "1">> \o DotVsix

\* extensions.yml: a mapping, its keys are distinct and keep their order
ExtManifests ==
    {m \in UNION {[1..n -> Publishers] : n \in 0..MaxPublishers} :
        \A i, j \in DOMAIN m : i # j => m[i] # m[j]}

\* what download.py may have left in the extensions directory
ExtDirs == SUBSET {VsixName(q) : q \in Publishers}

ExtInit ==
    /\ InstallIdle
    /\ SpinnerIdle
    /\ FSIdle
    /\ UnIdle
    /\ TplIdle
    /\ GlIdle
    /\ RmIdle
    /\ JavaIdle
    /\ xManifest \in ExtManifests
    /\ xDir \in ExtDirs
    /\ xPi = 1
    /\ xQueue = << >>
    /\ xLog = << >>
    /\ xPc = "glob"

\* f"{publisher}*.vsix"
PublisherGlob(publisher) == publisher \o <<"*">> \o DotVsix

\* get_all_files_reversed_sorted(directory, pattern): the matches of the
\* glob, by basename in reverse
GetAllFilesReversedSorted(dir, pattern) ==
    SortedReverse({<<n>> : n \in {f \in dir : GlobMatch(pattern, f)}})

\* for publisher, _ in extensions.items(): the glob of the publisher
ExtGlob ==
    /\ xPc = "glob"
    /\ xPi <= Len(xManifest)
    /\ xQueue' = GetAllFilesReversedSorted(xDir, PublisherGlob(xManifest[xPi]))
    /\ xPc' = "install"
    /\ UNCHANGED <<outsideExt, xManifest, xDir, xPi, xLog>>

\* for extension in all_group_extensions: the install command, then on
\* success the taskkill loop; CalledProcessError is caught, TimeoutExpired
\* leaves the function
ExtInstall ==
    /\ xPc = "install"
    /\ xQueue # << >>
    /\ xLog' = Append(xLog, Basename(Head(xQueue)))
    /\ \E out \in PossibleOutcomes("ext") :
         IF out = "ok" \/ out \in Handled("ext")
           THEN xQueue' = Tail(xQueue) /\ xPc' = "install"
           ELSE xQueue' = << >> /\ xPc' = "raised"
    /\ UNCHANGED <<outsideExt, xManifest, xDir, xPi>>

\* the files of the publisher are done
ExtNextPublisher ==
    /\ xPc = "install"
    /\ xQueue = << >>
    /\ xPi' = xPi + 1
    /\ xPc' = "glob"
    /\ UNCHANGED <<outsideExt, xManifest, xDir, xQueue, xLog>>

\* the publishers are done
ExtReturn ==
    /\ xPc = "glob"
    /\ xPi > Len(xManifest)
    /\ xPc' = "returned"
    /\ UNCHANGED <<outsideExt, xManifest, xDir, xPi, xQueue, xLog>>

ExtNext == ExtGlob \/ ExtInstall \/ ExtNextPublisher \/ ExtReturn

SpecExt == ExtInit /\ [][ExtNext]_vars

\* C26 (as claimed): phase 6 passes every .vsix file of the extensions
\* directory to the install command at most once per run, for every
\* extensions manifest, one with a publisher whose name is a prefix of
\* another publisher's name included.
C26_EachVsixAtMostOnce ==
    \A i, j \in DOMAIN xLog : i # j => xLog[i] # xLog[j]

(***************************************************************************)
(* The runtime home of install.py: phase 2 picks it from the declared       *)
(* tools, main hands it to phase 5 and to phase 7.                          *)
(***************************************************************************)
nVscodeTool == <<"v", "s", "c", "o", "d", "e">>
java8 == <<"j", "a", "v", "a", "8">>
java11 == <<"j", "a", "v", "a", "1", "1">>
java17 == <<"j", "a", "v", "a", "1", "7">>
java21 == <<"j", "a", "v", "a", "2", "1">>

\* the tool names a tools.yml of the model can declare
JavaToolNames == {nVscodeTool, java8, java11, java17, java21}

\* tools[name]["dir"]: every tool of the model has the directory of its name
ToolDir(name) == name

Digits == {"0", "1", "2", "3", "4", "5", "6", "7", "8", "9"}
DigitValue(c) == CHOOSE n \in 0..9 : Digit(n) = c

\* int of a run of digits
RECURSIVE ToInt(_)
ToInt(ds) ==
    IF ds = << >> THEN 0 ELSE 10 * ToInt(SubSeq(ds, 1, Len(ds) - 1)) + DigitValue(ds[Len(ds)])

\* extract_major_version(version_text): the first run of digits, as text
\* (empty for None)
ExtractMajorVersion(text) ==
    LET starts == {i \in 1..Len(text) : text[i] \in Digits}
    IN  IF starts = {} THEN << >>
        ELSE LET i == Least(starts)
                 stops == {j \in i..Len(text) : j = Len(text) \/ text[j + 1] \notin Digits}
             IN  SubSeq(text, i, Least(stops))

\* key.startswith("java")
IsJava(name) == StartsWith(name, nJava)

\* sorted([key for key in tools if key.startswith("java")], reverse=True)
JavaVersions(declared) == SortedReverse({<<n>> : n \in {t \in declared : IsJava(t)}})

JavaInit ==
    /\ InstallIdle
    /\ SpinnerIdle
    /\ FSIdle
    /\ UnIdle
    /\ TplIdle
    /\ GlIdle
    /\ RmIdle
    /\ ExtIdle
    /\ jTools \in SUBSET JavaToolNames
    /\ jWorkspace \in Workspaces
    /\ jPc = "p2"
    /\ jHome = << >>
    /\ jSettings = << >>
    /\ jCmd = << >>

\* phase2_extract_packages, its last statements: java_versions[0] raises
\* IndexError when no tool is a java tool
Phase2JavaHome ==
    /\ jPc = "p2"
    /\ IF JavaVersions(jTools) = << >>
         THEN jPc' = "raised" /\ UNCHANGED jHome
         ELSE /\ jHome' = Join(jWorkspace, ToolDir(Basename(JavaVersions(jTools)[1])))
              /\ jPc' = "p5"
    /\ UNCHANGED <<outsideJava, jTools, jWorkspace, jSettings, jCmd>>

\* phase5_path_migration: replace_in_file(..., r"_JAVAHOME_",
\* escape_backslashes(java_home_path, for_regex=True)), the text that stands
\* where the placeholder stood
Phase5JavaHome ==
    /\ jPc = "p5"
    /\ jSettings' = ExpandTemplate(EscapeBackslashes(jHome, TRUE))
    /\ jPc' = "p7"
    /\ UNCHANGED <<outsideJava, jTools, jWorkspace, jHome, jCmd>>

\* phase7_create_shortcut: 'set "JAVA_HOME={}"\n'.format(java_home_path)
Phase7JavaHome ==
    /\ jPc = "p7"
    /\ jCmd' = jHome
    /\ jPc' = "done"
    /\ UNCHANGED <<outsideJava, jTools, jWorkspace, jHome, jSettings>>

JavaNext == Phase2JavaHome \/ Phase5JavaHome \/ Phase7JavaHome

SpecJava == JavaInit /\ [][JavaNext]_vars

\* the java tools with the numerically highest major version
C30_HighestMajor(declared) ==
    {t \in declared : /\ IsJava(t)
                      /\ \A u \in declared : IsJava(u) =>
                            ToInt(ExtractMajorVersion(u)) <= ToInt(ExtractMajorVersion(t))}

\* C30 (as claimed): the runtime home phase 2 returns is the directory of the
\* java tool with the numerically highest major version, and that directory
\* is what phase 5 writes for _JAVAHOME_ (as a JSON string) and phase 7 for
\* JAVA_HOME.
C30_JavaHomeIsHighestMajor ==
    (jPc \in {"p5", "p7", "done"})
        => \E t \in C30_HighestMajor(jTools) :
              /\ jHome = Join(jWorkspace, ToolDir(t))
              /\ jPc \in {"p7", "done"} => jSettings = DoubleBackslashes(jHome)
              /\ jPc = "done" => jCmd = jHome

====
